---- MODULE Spec2Model ----
(***************************************************************************)
(* Model of the earthquake forecast pipeline of final_app.py:              *)
(* catalog loading and live-feed merge, region filter, recent-activity     *)
(* summary, pattern analyzer, forecast generator, and the request flow of  *)
(* main.                                                                   *)
(*                                                                         *)
(* Representation of the program's values:                                 *)
(*   - a datetime is an integer number of ticks since 1970-01-01 00:00,    *)
(*     TicksPerDay ticks to the day; timedelta.days is the floor of a      *)
(*     tick difference divided by TicksPerDay;                             *)
(*   - a magnitude is an integer number of hundredths (450 is 4.50);       *)
(*   - latitude/longitude are whole degrees, depth is whole kilometres;    *)
(*   - None is a record whose isNone field is TRUE.                        *)
(***************************************************************************)
EXTENDS Integers, Sequences, FiniteSets, TLC

\* Resolution of the clock: ticks per day.
TicksPerDay == 2

\* Scale of the live feed's wire time (epoch milliseconds) to one tick.
MsPerTick == 1000

Max(a, b) == IF a >= b THEN a ELSE b
Min(a, b) == IF a <= b THEN a ELSE b
Abs(a) == IF a >= 0 THEN a ELSE -a

\* timedelta(days=d)
Days(d) == d * TicksPerDay

\* timedelta.days: whole days of a tick difference, rounded toward -infinity
DaysOf(dt) == dt \div TicksPerDay

(***************************************************************************)
(* The proleptic Gregorian calendar of datetime: year, month and day of a  *)
(* tick count, and the tick count of a civil date.                         *)
(***************************************************************************)
CivilOfDay(z0) ==
    LET z   == z0 + 719468
        era == z \div 146097
        doe == z - era * 146097
        yoe == (doe - doe \div 1460 + doe \div 36524 - doe \div 146096) \div 365
        doy == doe - (365 * yoe + yoe \div 4 - yoe \div 100)
        mp  == (5 * doy + 2) \div 153
        d   == doy - (153 * mp + 2) \div 5 + 1
        m   == IF mp < 10 THEN mp + 3 ELSE mp - 9
        y   == yoe + era * 400 + (IF m <= 2 THEN 1 ELSE 0)
    IN  [year |-> y, month |-> m, day |-> d]

DayOfCivil(y0, m, d) ==
    LET y   == IF m <= 2 THEN y0 - 1 ELSE y0
        era == y \div 400
        yoe == y - era * 400
        mp  == IF m > 2 THEN m - 3 ELSE m + 9
        doy == (153 * mp + 2) \div 5 + d - 1
        doe == yoe * 365 + yoe \div 4 - yoe \div 100 + doy
    IN  era * 146097 + doe - 719468

YearOf(t) == CivilOfDay(t \div TicksPerDay).year
MonthOf(t) == CivilOfDay(t \div TicksPerDay).month

\* datetime.replace(year=y, month=m, day=15): the time of day is kept
ReplaceYearMonthDay15(t, y, m) ==
    DayOfCivil(y, m, 15) * TicksPerDay + (t % TicksPerDay)

(***************************************************************************)
(* The region registry.                                                    *)
(***************************************************************************)
Box(la0, la1, lo0, lo1) == [lat_range |-> <<la0, la1>>, lon_range |-> <<lo0, lo1>>]

COUNTRY_COORDS ==
    [c \in {"India", "Russia", "Japan", "Indonesia", "Chile", "Turkey", "Iran",
            "Philippines", "Mexico", "Greece", "Italy", "Peru", "USA-California",
            "New Zealand", "Pakistan", "Afghanistan"} |->
        CASE c = "India"          -> Box(8, 37, 68, 97)
          [] c = "Russia"         -> Box(41, 82, 19, 180)
          [] c = "Japan"          -> Box(24, 46, 123, 146)
          [] c = "Indonesia"      -> Box(-11, 6, 95, 141)
          [] c = "Chile"          -> Box(-56, -17, -76, -66)
          [] c = "Turkey"         -> Box(36, 42, 26, 45)
          [] c = "Iran"           -> Box(25, 40, 44, 63)
          [] c = "Philippines"    -> Box(4, 21, 116, 127)
          [] c = "Mexico"         -> Box(14, 33, -118, -86)
          [] c = "Greece"         -> Box(34, 42, 19, 30)
          [] c = "Italy"          -> Box(36, 47, 6, 19)
          [] c = "Peru"           -> Box(-18, 0, -81, -68)
          [] c = "USA-California" -> Box(32, 42, -125, -114)
          [] c = "New Zealand"    -> Box(-47, -34, 166, 179)
          [] c = "Pakistan"       -> Box(24, 37, 61, 77)
          [] c = "Afghanistan"    -> Box(29, 39, 60, 75)]

(***************************************************************************)
(* Sequences of rows (a DataFrame is the sequence of its rows).            *)
(***************************************************************************)
\* the row r put into rows, which are in ascending time, after the rows that
\* are not later than it
RECURSIVE InsertByTime(_, _)
InsertByTime(rows, r) ==
    IF rows = <<>> THEN <<r>>
    ELSE IF Head(rows).time <= r.time
         THEN <<Head(rows)>> \o InsertByTime(Tail(rows), r)
         ELSE <<r>> \o rows

\* DataFrame.sort_values('time'): ascending; rows of equal time keep their order
RECURSIVE SortFrom(_, _)
SortFrom(rows, acc) ==
    IF rows = <<>> THEN acc
    ELSE SortFrom(Tail(rows), InsertByTime(acc, Head(rows)))

\* SortByTime that leaves the rows as they come
KeepOrder(rows) == rows

SortByTime(rows) == SortFrom(rows, <<>>)

\* the columns of a row: every field but the provenance mark src, which is
\* not a column of the DataFrame
Columns(r) == <<r.time, r.latitude, r.longitude, r.depth, r.magnitude, r.place, r.zone>>

\* DataFrame.drop_duplicates(): rows equal in every column, the first one kept
RECURSIVE DropFrom(_, _)
DropFrom(rows, acc) ==
    IF rows = <<>> THEN acc
    ELSE IF \E i \in 1..Len(acc) : Columns(acc[i]) = Columns(Head(rows))
         THEN DropFrom(Tail(rows), acc)
         ELSE DropFrom(Tail(rows), Append(acc, Head(rows)))

DropDuplicates(rows) == DropFrom(rows, <<>>)

MaxTime(rows) ==
    CHOOSE t \in {rows[i].time : i \in 1..Len(rows)} :
        \A j \in 1..Len(rows) : t >= rows[j].time

(***************************************************************************)
(* _determine_earthquake_zone                                              *)
(***************************************************************************)
InPacificRing(lat, lon) ==
    (lat >= -60 /\ lat <= 70) /\
    ((lon >= 110 /\ lon <= 180) \/ (lon >= -180 /\ lon <= -100))

InMediterraneanHimalayan(lat, lon) ==
    (lat >= 20 /\ lat <= 50) /\ (lon >= -10 /\ lon <= 160)

InAtlanticRidge(lat, lon) ==
    (lon >= -40 /\ lon <= -10) /\ (lat >= -60 /\ lat <= 70)

\* the same three tests with the mediterranean-himalayan belt tried first
ZoneMediterraneanFirst(lat, lon) ==
    IF InMediterraneanHimalayan(lat, lon) THEN "mediterranean_himalayan_zone"
    ELSE IF InPacificRing(lat, lon) THEN "pacific_ring_zone"
    ELSE IF InAtlanticRidge(lat, lon) THEN "atlantic_ridge_zone"
    ELSE "global_zone"

DetermineEarthquakeZone(lat, lon) ==
    IF InPacificRing(lat, lon) THEN "pacific_ring_zone"
    ELSE IF InMediterraneanHimalayan(lat, lon) THEN "mediterranean_himalayan_zone"
    ELSE IF InAtlanticRidge(lat, lon) THEN "atlantic_ridge_zone"
    ELSE "global_zone"

(***************************************************************************)
(* filter_country_data                                                     *)
(***************************************************************************)
\* InBox with the upper bounds exclusive
InBoxExclusive(r, coords) ==
    /\ r.latitude >= coords.lat_range[1]
    /\ r.latitude < coords.lat_range[2]
    /\ r.longitude >= coords.lon_range[1]
    /\ r.longitude < coords.lon_range[2]

InBox(r, coords) ==
    /\ r.latitude >= coords.lat_range[1]
    /\ r.latitude <= coords.lat_range[2]
    /\ r.longitude >= coords.lon_range[1]
    /\ r.longitude <= coords.lon_range[2]

FilterCountryData(dataRows, country) ==
    IF country \notin DOMAIN COUNTRY_COORDS THEN <<>>
    ELSE LET Keep(r) == InBox(r, COUNTRY_COORDS[country])
         IN  SortByTime(SelectSeq(dataRows, Keep))

\* FilterCountryDataCall that reads self.data before it looks the region up
FilterReadsDataFirst(self_data, country) ==
    IF self_data.isNone THEN [kind |-> "raised", rows |-> <<>>]
    ELSE [kind |-> "frame", rows |-> FilterCountryData(self_data.rows, country)]

\* filter_country_data(country) with self.data as it is: the returned frame,
\* or "raised" when indexing self.data = None raises
FilterCountryDataCall(self_data, country) ==
    IF country \notin DOMAIN COUNTRY_COORDS THEN [kind |-> "frame", rows |-> <<>>]
    ELSE IF self_data.isNone THEN [kind |-> "raised", rows |-> <<>>]
    ELSE [kind |-> "frame", rows |-> FilterCountryData(self_data.rows, country)]

(***************************************************************************)
(* Arithmetic on sequences of integers.  The program computes in floating  *)
(* point; the model computes in fixed point, flooring, at the scales named *)
(* with each result.                                                       *)
(***************************************************************************)
\* the sequence f, held as a tuple of its values
AsSeq(f) == f \o <<>>

RECURSIVE Sum(_)
Sum(xs) == IF xs = <<>> THEN 0 ELSE Head(xs) + Sum(Tail(xs))

MaxOf(xs) == CHOOSE x \in {xs[i] : i \in 1..Len(xs)} : \A j \in 1..Len(xs) : x >= xs[j]

MinOf(xs) == CHOOSE x \in {xs[i] : i \in 1..Len(xs)} : \A j \in 1..Len(xs) : x <= xs[j]

RECURSIVE InsertInt(_, _)
InsertInt(xs, x) ==
    IF xs = <<>> THEN <<x>>
    ELSE IF Head(xs) <= x THEN <<Head(xs)>> \o InsertInt(Tail(xs), x)
         ELSE <<x>> \o xs

RECURSIVE SortIntsFrom(_, _)
SortIntsFrom(xs, acc) ==
    IF xs = <<>> THEN acc ELSE SortIntsFrom(Tail(xs), InsertInt(acc, Head(xs)))

SortInts(xs) == SortIntsFrom(xs, <<>>)

\* the largest r with r * r <= n, searched between lo and hi
RECURSIVE ISqrtIn(_, _, _)
ISqrtIn(n, lo, hi) ==
    IF lo >= hi THEN lo
    ELSE LET mid == (lo + hi + 1) \div 2
         IN  IF mid * mid <= n THEN ISqrtIn(n, mid, hi) ELSE ISqrtIn(n, lo, mid - 1)

ISqrt(n) == ISqrtIn(n, 0, 46340)

\* a / b rounded to the nearest integer (b > 0)
RoundDiv(a, b) == (2 * a + b) \div (2 * b)

\* Series.mean(), at scale units to one
MeanScaled(xs, scale) == (Sum(xs) * scale) \div Len(xs)

\* n * (sum of squared deviations from the mean) of xs: zero iff all are equal
DevNumerator(xs) ==
    LET n  == Len(xs)
        c  == Sum(xs) \div n
        ds == AsSeq([i \in 1..n |-> xs[i] - c])
        sq == AsSeq([i \in 1..n |-> ds[i] * ds[i]])
        r  == Sum(ds)
    IN  n * Sum(sq) - r * r

\* Series.std() (sample standard deviation, ddof = 1) of two or more values,
\* at scale units to one; positive whenever the values are not all equal
StdScaled(xs, scale) ==
    LET n   == Len(xs)
        num == DevNumerator(xs)
        den == n * (n - 1)
        q   == num \div den
        rem == num % den
    IN  IF num = 0 THEN 0
        ELSE Max(1, ISqrt(q * scale * scale + (rem * scale * scale) \div den))

\* Series.median(), in halves
Median2(xs) ==
    LET s == SortInts(xs)
        n == Len(s)
    IN  IF n % 2 = 1 THEN 2 * s[(n + 1) \div 2]
        ELSE s[n \div 2] + s[n \div 2 + 1]

\* 4 * Series.quantile(k / 4), by linear interpolation between order statistics
Quantile4(xs, k) ==
    LET s   == SortInts(xs)
        n   == Len(s)
        pos == k * (n - 1)
        i   == pos \div 4
        r   == pos % 4
    IN  IF r = 0 THEN 4 * s[i + 1]
        ELSE 4 * s[i + 1] + r * (s[i + 2] - s[i + 1])

(***************************************************************************)
(* _assess_data_quality                                                    *)
(***************************************************************************)
MinTime(rows) ==
    CHOOSE t \in {rows[i].time : i \in 1..Len(rows)} :
        \A j \in 1..Len(rows) : t <= rows[j].time

Magnitudes(rows) == AsSeq([i \in 1..Len(rows) |-> rows[i].magnitude])
Depths(rows) == AsSeq([i \in 1..Len(rows) |-> rows[i].depth])

\* time_span = (max - min).days / 365.25, compared in quarter days
TimeSpanScore(rows) ==
    LET days == DaysOf(MaxTime(rows) - MinTime(rows))
    IN  IF 4 * days >= 50 * 1461 THEN 25
        ELSE IF 4 * days >= 20 * 1461 THEN 20
        ELSE IF 4 * days >= 10 * 1461 THEN 15
        ELSE 10

EventCountScore(rows) ==
    LET event_count == Len(rows)
    IN  IF event_count >= 100 THEN 25
        ELSE IF event_count >= 50 THEN 20
        ELSE IF event_count >= 20 THEN 15
        ELSE 10

RecencyScore(rows, now) ==
    LET days_since_latest == DaysOf(now - MaxTime(rows))
    IN  IF days_since_latest <= 365 THEN 25
        ELSE IF days_since_latest <= 1825 THEN 20
        ELSE IF days_since_latest <= 3650 THEN 15
        ELSE 5

\* MagRangeScore with 30 points for the widest range
MagRangeScoreWide(rows) ==
    LET mag_range == MaxOf(Magnitudes(rows)) - MinOf(Magnitudes(rows))
    IN  IF mag_range >= 300 THEN 30
        ELSE IF mag_range >= 200 THEN 20
        ELSE IF mag_range >= 100 THEN 15
        ELSE 10

MagRangeScore(rows) ==
    LET mag_range == MaxOf(Magnitudes(rows)) - MinOf(Magnitudes(rows))
    IN  IF mag_range >= 300 THEN 25
        ELSE IF mag_range >= 200 THEN 20
        ELSE IF mag_range >= 100 THEN 15
        ELSE 10

AssessDataQuality(rows, now) ==
    LET quality_score ==
            IF Len(rows) > 0
            THEN TimeSpanScore(rows) + EventCountScore(rows)
                 + RecencyScore(rows, now) + MagRangeScore(rows)
            ELSE 10
    IN  Min(100, quality_score)

(***************************************************************************)
(* analyze_earthquake_patterns                                             *)
(*                                                                         *)
(* The outcome is [kind |-> "none"] (insufficient data, the code's None),  *)
(* [kind |-> "raised"] (the call raises) or [kind |-> "analysis", a |-> r] *)
(* with r the returned dict.  Units of r: avg_interval_days and            *)
(* std_interval_days in tenths of a day, median_interval_days in half      *)
(* days, magnitudes of the events in hundredths, avg_magnitude and         *)
(* magnitude_trend in ten-thousandths, magnitude_std in thousandths,       *)
(* avg_depth and depth_std in tenths of a kilometre, recent_frequency and  *)
(* recent_frequency_5yr in twentieths of an event per year, the            *)
(* consistency metrics and seasonal_confidence in thousandths.             *)
(***************************************************************************)
IsSignificant(r) == r.magnitude >= 400
IsMajor(r) == r.magnitude >= 500

\* significant['time'].diff().dt.days.dropna() of rows in ascending time
TimeDiffs(sorted) ==
    AsSeq([i \in 1..(Len(sorted) - 1) |->
              DaysOf(sorted[i + 1].time - sorted[i].time)])

\* the fixed-bound filter of the intervals
\* FixedBoundFilter without the floor of 30 days
FixedBoundFilterNoFloor(time_diffs) ==
    LET Keep(d) == d <= 3650
    IN  SelectSeq(time_diffs, Keep)

FixedBoundFilter(time_diffs) ==
    LET Keep(d) == d >= 30 /\ d <= 3650
    IN  SelectSeq(time_diffs, Keep)

\* the IQR filter; the bounds max(30, Q1 - 1.5 IQR) and min(7300, Q3 + 1.5 IQR)
\* are compared in eighths of a day
IqrFilter(time_diffs) ==
    LET Q1x4 == Quantile4(time_diffs, 1)
        Q3x4 == Quantile4(time_diffs, 3)
        IQRx4 == Q3x4 - Q1x4
        lower8 == Max(8 * 30, 2 * Q1x4 - 3 * IQRx4)
        upper8 == Min(8 * 7300, 2 * Q3x4 + 3 * IQRx4)
        Keep(d) == 8 * d >= lower8 /\ 8 * d <= upper8
    IN  SelectSeq(time_diffs, Keep)

FilterIntervals(time_diffs) ==
    IF Len(time_diffs) > 3
    THEN LET time_diffs_filtered == IqrFilter(time_diffs)
         IN  IF 2 * Len(time_diffs_filtered) < Max(2 * 3, Len(time_diffs))
             THEN FixedBoundFilter(time_diffs)
             ELSE time_diffs_filtered
    ELSE FixedBoundFilter(time_diffs)

Months == <<1, 2, 3, 4, 5, 6, 7, 8, 9, 10, 11, 12>>

\* significant['month'].value_counts(): the count of each month, 0 for a month
\* that is no index of the Series
MonthlyCounts(rows) ==
    LET months == AsSeq([i \in 1..Len(rows) |-> MonthOf(rows[i].time)])
    IN  AsSeq([m \in 1..12 |-> Cardinality({i \in 1..Len(rows) : months[i] = m})])

PresentMonths(counts) == {m \in 1..12 : counts[m] > 0}

\* count >= mean + 0.5 * std over the months present; with one month present
\* the std is NaN and the comparison is False
AtLeastPeakThreshold(counts, m) ==
    LET present == SelectSeq(Months, LAMBDA k : counts[k] > 0)
        n   == Len(present)
        cs  == AsSeq([i \in 1..n |-> counts[present[i]]])
        S   == Sum(cs)
        sq  == Sum(AsSeq([i \in 1..n |-> cs[i] * cs[i]]))
        dev == n * counts[m] - S
    IN  /\ n >= 2
        /\ counts[m] > 0
        /\ dev >= 0
        /\ 4 * dev * dev * (n - 1) >= n * (n * sq - S * S)

\* Series.nlargest(k): the k largest counts, the earlier month first among equals
RECURSIVE NLargest(_, _, _)
NLargest(counts, among, k) ==
    IF k = 0 \/ among = {} THEN <<>>
    ELSE LET best == CHOOSE m \in among :
                        \A o \in among :
                            \/ counts[m] > counts[o]
                            \/ (counts[m] = counts[o] /\ m <= o)
         IN  <<best>> \o NLargest(counts, among \ {best}, k - 1)

PeakMonths(counts) ==
    LET peaks == SelectSeq(Months, LAMBDA m : AtLeastPeakThreshold(counts, m))
    IN  IF Len(peaks) = 0 THEN NLargest(counts, PresentMonths(counts), 3) ELSE peaks

\* monthly_counts[[a, b, c]] raises KeyError when one of the months is no
\* index of the Series
SeasonLookupRaises(counts) == PresentMonths(counts) # 1..12

SeasonalAnalysis(counts) ==
    [winter |-> counts[12] + counts[1] + counts[2],
     spring |-> counts[3] + counts[4] + counts[5],
     summer |-> counts[6] + counts[7] + counts[8],
     autumn |-> counts[9] + counts[10] + counts[11]]

\* max(seasonal_analysis, key=seasonal_analysis.get): the first largest in the
\* dict's order
PeakSeason(sa) ==
    LET order == <<"winter", "spring", "summer", "autumn">>
        i == CHOOSE i \in 1..4 :
                /\ \A j \in 1..4 : sa[order[i]] >= sa[order[j]]
                /\ \A j \in 1..(i - 1) : sa[order[j]] < sa[order[i]]
    IN  order[i]

SeasonalConfidence(sa) ==
    LET total_seasonal == sa.winter + sa.spring + sa.summer + sa.autumn
    IN  IF total_seasonal > 0 THEN (sa[PeakSeason(sa)] * 1000) \div total_seasonal
        ELSE 250

\* significant[significant['year'] >= (datetime.now().year - years)]
RecentRows(rows, now, years) ==
    SelectSeq(rows, LAMBDA r : YearOf(r.time) >= YearOf(now) - years)

\* recent_years.groupby('year')['magnitude'].mean().mean()
MeanOfYearlyMeans(rows) ==
    LET ys    == {YearOf(rows[i].time) : i \in 1..Len(rows)}
        lo    == CHOOSE y \in ys : \A o \in ys : y <= o
        hi    == CHOOSE y \in ys : \A o \in ys : y >= o
        OfYear(y) == SelectSeq(rows, LAMBDA r : YearOf(r.time) = y)
        means == AsSeq([i \in 1..(hi - lo + 1) |->
                    IF (lo + i - 1) \in ys
                    THEN MeanScaled(Magnitudes(OfYear(lo + i - 1)), 100)
                    ELSE 0])
    IN  Sum(means) \div Cardinality(ys)

MagnitudeTrend(significant, now) ==
    LET recent_years == RecentRows(significant, now, 10)
    IN  IF Len(recent_years) >= 3 THEN MeanOfYearlyMeans(recent_years)
        ELSE MeanScaled(Magnitudes(significant), 100)

\* 1 - std / avg, or 0.8 when the std is not positive
Consistency(std, avg) ==
    IF std > 0 THEN 1000 - (std * 1000) \div avg ELSE 800

NoAnalysis == [kind |-> "none"]
RaisedAnalysis == [kind |-> "raised"]

\* the gate on the number of region events (first early return)
TooFewEvents(country_data) == Len(country_data) < 10

\* TooFewSignificant with the threshold one lower
TooFewSignificantBelow4(significant) == Len(significant) < 4

\* the gate on the number of significant events (second early return)
TooFewSignificant(significant) == Len(significant) < 5

\* TooFewIntervals with the threshold one lower
TooFewIntervalsBelow2(time_diffs_filtered) == Len(time_diffs_filtered) < 2

\* the gate on the number of surviving intervals (third early return)
TooFewIntervals(time_diffs_filtered) == Len(time_diffs_filtered) < 3

\* the returned dict, once the three gates are passed and no lookup raised
PatternAnalysis(country_data, now) ==
    LET significant == SortByTime(SelectSeq(country_data, IsSignificant))
        major == SelectSeq(country_data, IsMajor)
        time_diffs_filtered == FilterIntervals(TimeDiffs(significant))
        avg_interval == MeanScaled(time_diffs_filtered, 10)
        std_interval == StdScaled(time_diffs_filtered, 10)
        monthly_counts == MonthlyCounts(significant)
        seasonal_analysis == SeasonalAnalysis(monthly_counts)
        seasonal_confidence == SeasonalConfidence(seasonal_analysis)
        avg_magnitude == MeanScaled(Magnitudes(significant), 100)
        magnitude_std == StdScaled(Magnitudes(significant), 10)
        avg_depth == MeanScaled(Depths(significant), 10)
        depth_std == StdScaled(Depths(significant), 10)
        shallow_earthquakes == Len(SelectSeq(significant, LAMBDA r : r.depth < 70))
        deep_earthquakes == Len(SelectSeq(significant, LAMBDA r : r.depth >= 70))
    IN  [total_earthquakes |-> Len(significant),
         major_earthquakes |-> Len(major),
         avg_interval_days |-> avg_interval,
         median_interval_days |-> Median2(time_diffs_filtered),
         std_interval_days |-> std_interval,
         peak_months |-> PeakMonths(monthly_counts),
         peak_season |-> PeakSeason(seasonal_analysis),
         seasonal_confidence |-> seasonal_confidence,
         monthly_distribution |->
             [m \in PresentMonths(monthly_counts) |-> monthly_counts[m]],
         seasonal_distribution |-> seasonal_analysis,
         avg_magnitude |-> avg_magnitude,
         max_magnitude |-> MaxOf(Magnitudes(significant)),
         min_magnitude |-> MinOf(Magnitudes(significant)),
         magnitude_std |-> magnitude_std,
         magnitude_trend |-> MagnitudeTrend(significant, now),
         avg_depth |-> avg_depth,
         depth_std |-> depth_std,
         shallow_count |-> shallow_earthquakes,
         deep_count |-> deep_earthquakes,
         recent_frequency |-> Len(RecentRows(significant, now, 20)),
         recent_frequency_5yr |-> 4 * Len(RecentRows(significant, now, 5)),
         last_major_earthquake |-> significant[Len(significant)].time,
         time_intervals |-> time_diffs_filtered,
         consistency_metrics |->
             [temporal_consistency |-> Consistency(std_interval, avg_interval),
              magnitude_consistency |->
                  Consistency(magnitude_std * 10, avg_magnitude),
              depth_consistency |->
                  (Max(shallow_earthquakes, deep_earthquakes) * 1000)
                      \div Len(significant),
              seasonal_consistency |-> seasonal_confidence],
         data_quality_score |-> AssessDataQuality(significant, now)]

\* analyze_earthquake_patterns(country_data) called at time now; parsed tells
\* whether the time column holds datetimes (it holds the file's strings when
\* load_data failed after reading the file)
AnalyzeEarthquakePatterns(country_data, parsed, now) ==
    LET significant == SelectSeq(country_data, IsSignificant)
    IN  IF TooFewEvents(country_data) THEN NoAnalysis
        ELSE IF TooFewSignificant(significant) THEN NoAnalysis
        ELSE IF ~parsed THEN RaisedAnalysis
        ELSE IF TooFewIntervals(FilterIntervals(TimeDiffs(SortByTime(significant))))
             THEN NoAnalysis
        ELSE IF SeasonLookupRaises(MonthlyCounts(significant)) THEN RaisedAnalysis
        ELSE [kind |-> "analysis", a |-> PatternAnalysis(country_data, now)]

(***************************************************************************)
(* predict_next_earthquake                                                 *)
(*                                                                         *)
(* clk holds the values datetime.now() returns at its successive reads in  *)
(* the call (t491, t509, t531, t563, named by the source line); rnd holds  *)
(* the draws of the random source: z, the standard normal draw behind      *)
(* np.random.normal(0, variation_factor), in tenths, and lat, lon, depth,  *)
(* the three uniform draws.  Dates are ticks, day counts are days, the     *)
(* confidence is in halves of a point until it is rounded, magnitudes are  *)
(* in ten-thousandths until predicted_magnitude is rounded to hundredths.  *)
(***************************************************************************)
\* weighted_interval, in ticks
WeightedInterval(analysis) ==
    IF analysis.recent_frequency > 0
    THEN \* 0.6 * median + 0.4 * 365.25 / (n20 / 20), over 10 * n20
         RoundDiv(TicksPerDay * (3 * analysis.median_interval_days
                                     * analysis.recent_frequency + 29220),
                  10 * analysis.recent_frequency)
    ELSE RoundDiv(TicksPerDay * analysis.median_interval_days, 2)

\* std_interval / avg_interval, in thousandths
CoefficientOfVariation(analysis) ==
    (analysis.std_interval_days * 1000) \div analysis.avg_interval_days

\* future_cycles = int(days_overdue / weighted_interval) + 1 (lines 494-498)
FutureCycles(expected_date, weighted_interval, current_date) ==
    LET days_overdue == DaysOf(current_date - expected_date)
    IN  (days_overdue * TicksPerDay) \div weighted_interval + 1

\* the future-projection correction (lines 491-503)
FutureProject(expected_date, weighted_interval, current_date) ==
    IF expected_date <= current_date
    THEN LET future_cycles ==
                 FutureCycles(expected_date, weighted_interval, current_date)
             advanced == expected_date + weighted_interval * future_cycles
         IN  IF DaysOf(advanced - current_date) < 30
             THEN current_date + Days(30) + weighted_interval
             ELSE advanced
    ELSE expected_date

\* abs((candidate - expected_date).days) < weighted_interval * 0.5
WithinHalfInterval(candidate, expected_date, weighted_interval) ==
    2 * Abs(DaysOf(candidate - expected_date)) * TicksPerDay < weighted_interval

\* the seasonal snapping (lines 506-521)
SeasonalSnap(expected_date, peak_months, weighted_interval, current_date) ==
    IF Len(peak_months) > 0
       /\ ~(\E i \in 1..Len(peak_months) : peak_months[i] = MonthOf(expected_date))
    THEN LET target_month == peak_months[1]
             current_year_date ==
                 ReplaceYearMonthDay15(current_date, YearOf(current_date), target_month)
             next_year_date ==
                 ReplaceYearMonthDay15(current_date, YearOf(current_date) + 1, target_month)
         IN  IF current_year_date > current_date
                /\ WithinHalfInterval(current_year_date, expected_date, weighted_interval)
             THEN current_year_date
             ELSE IF WithinHalfInterval(next_year_date, expected_date, weighted_interval)
             THEN next_year_date
             ELSE expected_date
    ELSE expected_date

\* uncertainty_days, in ticks
UncertaintyTicks(analysis, weighted_interval) ==
    LET uncertainty_factor ==
            IF analysis.std_interval_days > 0
            THEN Min(300, CoefficientOfVariation(analysis))
            ELSE 200
    IN  RoundDiv(weighted_interval * uncertainty_factor, 1000)

\* ShiftDays without the added day
ShiftDaysFloored(date_range_start, current_date) ==
    IF date_range_start <= current_date
    THEN DaysOf(current_date - date_range_start)
    ELSE 0

\* the number of days the window is shifted by (lines 531-537), 0 when the
\* window starts after current_date
ShiftDays(date_range_start, current_date) ==
    IF date_range_start <= current_date
    THEN DaysOf(current_date - date_range_start) + 1
    ELSE 0

\* expected_date as first computed (line 485)
FirstEstimate(analysis) == analysis.last_major_earthquake + WeightedInterval(analysis)

\* expected_date after the future-projection correction and the snapping
SnappedDate(analysis, clk) ==
    SeasonalSnap(FutureProject(FirstEstimate(analysis), WeightedInterval(analysis),
                               clk.t491),
                 analysis.peak_months, WeightedInterval(analysis), clk.t509)

\* date_range_start before the window is shifted (line 527)
WindowStart(analysis, clk) ==
    SnappedDate(analysis, clk) - UncertaintyTicks(analysis, WeightedInterval(analysis))

\* ForecastDates with the point estimate left behind when the window moves
ForecastDatesBoundsOnly(analysis, clk) ==
    LET snapped == SnappedDate(analysis, clk)
        uncertainty == UncertaintyTicks(analysis, WeightedInterval(analysis))
        shift == Days(ShiftDays(snapped - uncertainty, clk.t531))
    IN  [predicted_date |-> snapped,
         date_range |-> <<snapped - uncertainty + shift, snapped + uncertainty + shift>>]

\* expected_date and date_range of the forecast
ForecastDates(analysis, clk) ==
    LET snapped == SnappedDate(analysis, clk)
        uncertainty == UncertaintyTicks(analysis, WeightedInterval(analysis))
        shift == Days(ShiftDays(snapped - uncertainty, clk.t531))
    IN  [predicted_date |-> snapped + shift,
         date_range |-> <<snapped - uncertainty + shift, snapped + uncertainty + shift>>]

\* round() of a / b (b > 0): to the nearest integer, a half to the even one
RoundHalfEven(a, b) ==
    LET q == a \div b
        r == a % b
    IN  IF 2 * r < b THEN q
        ELSE IF 2 * r > b THEN q + 1
        ELSE IF q % 2 = 0 THEN q ELSE q + 1

\* the five factors, in halves of a point
DataVolumeScore(analysis) == Min(2 * 25, analysis.total_earthquakes)

RegularityScore(analysis) ==
    IF analysis.std_interval_days > 0
    THEN LET coefficient_of_variation == CoefficientOfVariation(analysis)
         IN  IF coefficient_of_variation < 200 THEN 2 * 25
             ELSE IF coefficient_of_variation < 400 THEN 2 * 20
             ELSE IF coefficient_of_variation < 600 THEN 2 * 15
             ELSE 2 * 10
    ELSE 2 * 15

\* the recency factor with its four values in the opposite order
DataRecencyScoreRising(time_since_last) ==
    IF time_since_last < 365 THEN 2 * 5
    ELSE IF time_since_last < 1825 THEN 2 * 10
    ELSE IF time_since_last < 3650 THEN 2 * 15
    ELSE 2 * 20

DataRecencyScore(time_since_last) ==
    IF time_since_last < 365 THEN 2 * 20
    ELSE IF time_since_last < 1825 THEN 2 * 15
    ELSE IF time_since_last < 3650 THEN 2 * 10
    ELSE 2 * 5

SeasonalScore(analysis) ==
    LET dist == analysis.monthly_distribution
        n == Cardinality(DOMAIN dist)
    IN  IF Len(analysis.peak_months) > 0 /\ n > 6
        THEN LET max_monthly == CHOOSE v \in {dist[m] : m \in DOMAIN dist} :
                                    \A m \in DOMAIN dist : v >= dist[m]
                 total == Sum(AsSeq([i \in 1..12 |->
                                         IF i \in DOMAIN dist THEN dist[i] ELSE 0]))
             IN  \* max_monthly > avg_monthly * 1.5, avg_monthly = total / n
                 IF 2 * max_monthly * n > 3 * total THEN 2 * 15
                 ELSE IF 5 * max_monthly * n > 6 * total THEN 2 * 10
                 ELSE 2 * 5
        ELSE 2 * 5

GeoScore(analysis) ==
    LET total_events == analysis.shallow_count + analysis.deep_count
        larger == Max(analysis.shallow_count, analysis.deep_count)
    IN  IF total_events > 0
        THEN IF 10 * larger > 8 * total_events THEN 2 * 15
             ELSE IF 10 * larger > 6 * total_events THEN 2 * 12
             ELSE 2 * 8
        ELSE 2 * 8

\* the three penalties, in halves of a point
SparseDataPenalty(analysis) ==
    IF analysis.total_earthquakes < 10 THEN -(2 * 15)
    ELSE IF analysis.total_earthquakes < 20 THEN -(2 * 10)
    ELSE 0

HighVariabilityPenalty(analysis) ==
    IF analysis.std_interval_days > 0
       /\ analysis.std_interval_days > analysis.avg_interval_days
    THEN -(2 * 10) ELSE 0

OutdatedDataPenalty(time_since_last) ==
    IF time_since_last > 7300 THEN -(2 * 15)
    ELSE IF time_since_last > 3650 THEN -(2 * 8)
    ELSE 0

\* base_confidence + sum(penalties), in halves of a point
RawConfidence(analysis, time_since_last) ==
    DataVolumeScore(analysis) + RegularityScore(analysis)
    + DataRecencyScore(time_since_last) + SeasonalScore(analysis) + GeoScore(analysis)
    + SparseDataPenalty(analysis) + HighVariabilityPenalty(analysis)
    + OutdatedDataPenalty(time_since_last)

\* ClampConfidence that clamps nothing
ClampNothing(confidence) == confidence

\* max(35, min(85, confidence)), in halves of a point
ClampConfidence(confidence) == Max(2 * 35, Min(2 * 85, confidence))

\* confidence_percentage = round(confidence)
ConfidencePercentage(analysis, time_since_last) ==
    RoundHalfEven(ClampConfidence(RawConfidence(analysis, time_since_last)), 2)

\* trend_adjusted_magnitude, in ten-thousandths
TrendAdjustedMagnitude(analysis) ==
    LET base_magnitude == analysis.avg_magnitude
        recent_trend == analysis.magnitude_trend
        trend_weight == IF analysis.recent_frequency_5yr > analysis.recent_frequency
                        THEN 3 ELSE 2
    IN  IF Abs(recent_trend - base_magnitude) > 1500
        THEN (base_magnitude * (10 - trend_weight) + recent_trend * trend_weight) \div 10
        ELSE base_magnitude

\* variation_factor, in ten-thousandths
VariationFactor(analysis) ==
    IF analysis.magnitude_std < 300 THEN 2000
    ELSE IF analysis.magnitude_std < 600 THEN 3500
    ELSE 5000

\* the lower and upper constraint of the magnitude, in ten-thousandths
MinMagnitudeBound(analysis) == Max(40000, 100 * analysis.min_magnitude)
MaxMagnitudeBound(analysis) == Min(100 * analysis.max_magnitude + 5000, 95000)

\* max(min_magnitude, min(predicted_magnitude, max_magnitude))
ClampMagnitude(predicted, analysis) ==
    Max(MinMagnitudeBound(analysis), Min(predicted, MaxMagnitudeBound(analysis)))

\* round(predicted_magnitude, 1), given ten-thousandths, in hundredths
RoundOneDecimal(m) == 10 * RoundHalfEven(m, 1000)

\* predicted_magnitude, in hundredths; z is the standard normal draw in tenths
PredictedMagnitude(analysis, z) ==
    LET noise == (z * VariationFactor(analysis)) \div 10
    IN  RoundOneDecimal(ClampMagnitude(TrendAdjustedMagnitude(analysis) + noise, analysis))

\* _calculate_risk_level, of a magnitude in hundredths
CalculateRiskLevel(magnitude) ==
    IF magnitude < 450 THEN "Low"
    ELSE IF magnitude < 550 THEN "Moderate"
    ELSE IF magnitude < 650 THEN "High"
    ELSE IF magnitude < 750 THEN "Very High"
    ELSE "Extreme"

PatternStrength(analysis) ==
    IF analysis.consistency_metrics.temporal_consistency > 700 THEN "Strong"
    ELSE IF analysis.consistency_metrics.temporal_consistency > 400 THEN "Moderate"
    ELSE "Weak"

\* np.random.uniform(lo, hi) at the draw u (thousandths of the way from lo to
\* hi), at scale units to one
Uniform(lo, hi, u, scale) == lo * scale + RoundDiv((hi - lo) * scale * u, 1000)

NoForecast == [kind |-> "none"]

PredictNextEarthquake(country, outcome, clk, rnd) ==
    IF outcome.kind # "analysis" THEN NoForecast
    ELSE LET analysis == outcome.a
             dates == ForecastDates(analysis, clk)
             time_since_last == DaysOf(clk.t563 - analysis.last_major_earthquake)
             predicted_magnitude == PredictedMagnitude(analysis, rnd.z)
             coords == COUNTRY_COORDS[country]
         IN  [kind |-> "forecast",
              f |-> [predicted_date |-> dates.predicted_date,
                     date_range |-> dates.date_range,
                     predicted_magnitude |-> predicted_magnitude,
                     estimated_coordinates |->
                         <<Uniform(coords.lat_range[1], coords.lat_range[2], rnd.lat, 100),
                           Uniform(coords.lon_range[1], coords.lon_range[2], rnd.lon, 100)>>,
                     estimated_depth |->
                         IF analysis.shallow_count > analysis.deep_count
                         THEN Uniform(5, 70, rnd.depth, 10)
                         ELSE Uniform(70, 200, rnd.depth, 10),
                     confidence_percentage |->
                         ConfidencePercentage(analysis, time_since_last),
                     peak_risk_months |-> analysis.peak_months,
                     peak_season |-> analysis.peak_season,
                     days_since_last |-> time_since_last,
                     pattern_strength |-> PatternStrength(analysis),
                     risk_level |-> CalculateRiskLevel(predicted_magnitude)]]

(***************************************************************************)
(* _fetch_recent_earthquakes and load_data                                 *)
(*                                                                         *)
(* A feature of the live feed is [time, coords, mag, place, complete]:     *)
(* time in epoch milliseconds, coords = <<longitude, latitude, depth>>     *)
(* with depth <<>> for null and <<d>> otherwise, complete FALSE when a     *)
(* required key is absent.  The feed is [status, tz, features]: status     *)
(* "error" when the request fails, tz the offset of local time in ticks.   *)
(* The file is [state, rows]: state "missing", "unreadable" (read_csv      *)
(* raises), "bad_time" (a timestamp does not parse) or "ok".               *)
(* self.data is [isNone, parsed, rows].                                    *)
(***************************************************************************)
NoneData == [isNone |-> TRUE, parsed |-> FALSE, rows |-> <<>>]

\* depth of a record made from a feature with a null depth (10.0)
DefaultDepth == 10

\* datetime.fromtimestamp(props['time'] / 1000): local time
FromTimestamp(ms, tz) == ms \div MsPerTick + tz

\* the record built from one feature (lines 140-159)
RecentRecord(eq, tz) ==
    [time |-> FromTimestamp(eq.time, tz),
     latitude |-> eq.coords[2],
     longitude |-> eq.coords[1],
     depth |-> IF eq.coords[3] = <<>> THEN DefaultDepth ELSE eq.coords[3][1],
     magnitude |-> eq.mag,
     place |-> eq.place,
     zone |-> DetermineEarthquakeZone(eq.coords[2], eq.coords[1]),
     src |-> "live"]

\* AfterLastDate that keeps a record at last_date
AtOrAfterLastDate(r, last_date) == r.time >= last_date

\* recent_df[recent_df['time'] > last_date]
AfterLastDate(r, last_date) == r.time > last_date

\* FetchRecentEarthquakes that skips a feature lacking a key instead of failing
FetchSkipsIncomplete(last_date, feed) ==
    IF feed.status = "error" THEN [isNone |-> TRUE, rows |-> <<>>]
    ELSE IF feed.features = <<>> THEN [isNone |-> TRUE, rows |-> <<>>]
    ELSE LET recent_records ==
                 AsSeq([i \in 1..Len(feed.features) |->
                           RecentRecord(feed.features[i], feed.tz)])
             Kept(i) == feed.features[i].complete
                            /\ recent_records[i].time > last_date
         IN  [isNone |-> FALSE,
              rows |-> AsSeq([k \in 1..Cardinality({i \in 1..Len(recent_records) : Kept(i)}) |->
                                recent_records[CHOOSE i \in 1..Len(recent_records) :
                                    /\ Kept(i)
                                    /\ Cardinality({j \in 1..i : Kept(j)}) = k]])]

\* the returned DataFrame, as [isNone, rows]
FetchRecentEarthquakes(last_date, feed) ==
    IF feed.status = "error" THEN [isNone |-> TRUE, rows |-> <<>>]
    ELSE IF feed.features = <<>> THEN [isNone |-> TRUE, rows |-> <<>>]
    ELSE IF \E i \in 1..Len(feed.features) : ~feed.features[i].complete
         THEN [isNone |-> TRUE, rows |-> <<>>]
    ELSE LET recent_records ==
                 AsSeq([i \in 1..Len(feed.features) |->
                           RecentRecord(feed.features[i], feed.tz)])
         IN  [isNone |-> FALSE,
              rows |-> SelectSeq(recent_records, LAMBDA r : AfterLastDate(r, last_date))]

\* pd.concat([self.data, recent_data]).sort_values('time').drop_duplicates()
MergeRecent(rows, recent_rows) == DropDuplicates(SortByTime(rows \o recent_rows))

\* load_data: [ret |-> the returned value, data |-> self.data after the call]
LoadData(self_data, file, feed) ==
    IF file.state = "missing" THEN [ret |-> FALSE, data |-> self_data]
    ELSE IF file.state = "unreadable" THEN [ret |-> FALSE, data |-> self_data]
    ELSE IF file.state = "bad_time"
         THEN \* self.data was assigned by read_csv before to_datetime raised
              [ret |-> FALSE,
               data |-> [isNone |-> FALSE, parsed |-> FALSE, rows |-> file.rows]]
    ELSE LET latest_historical == MaxTime(file.rows)
             recent_data == FetchRecentEarthquakes(latest_historical, feed)
         IN  IF ~recent_data.isNone /\ Len(recent_data.rows) > 0
             THEN [ret |-> TRUE,
                   data |-> [isNone |-> FALSE, parsed |-> TRUE,
                             rows |-> MergeRecent(file.rows, recent_data.rows)]]
             ELSE [ret |-> TRUE,
                   data |-> [isNone |-> FALSE, parsed |-> TRUE, rows |-> file.rows]]

(***************************************************************************)
(* get_recent_earthquake_summary                                           *)
(*                                                                         *)
(* The result is [kind |-> "none"] or [kind |-> "summary", s |-> r]; an    *)
(* optional value of r is a sequence of length 0 (None) or 1.              *)
(***************************************************************************)
NoSummary == [kind |-> "none"]

GetRecentEarthquakeSummary(data, country, current_date) ==
    IF data.isNone THEN NoSummary   \* the filter raises; the except returns None
    ELSE LET country_data == FilterCountryData(data.rows, country)
             one_year_ago == current_date - Days(365)
             recent_earthquakes ==
                 SelectSeq(country_data, LAMBDA r : r.time >= one_year_ago)
             recent_significant == SelectSeq(recent_earthquakes, IsSignificant)
             all_significant == SelectSeq(country_data, IsSignificant)
             LastOf(rows) == rows[Len(rows)]
             latest_significant ==
                 IF Len(recent_significant) > 0 THEN <<LastOf(recent_significant)>>
                 ELSE IF Len(all_significant) > 0 THEN <<LastOf(all_significant)>>
                 ELSE <<>>
         IN  IF Len(country_data) = 0 THEN NoSummary
             ELSE IF ~data.parsed THEN NoSummary  \* the comparison raises
             ELSE IF Len(recent_earthquakes) = 0
             THEN [kind |-> "summary",
                   s |-> [total_recent |-> 0, significant_recent |-> 0,
                          latest_earthquake |-> <<>>, latest_significant |-> <<>>,
                          days_since_latest |-> <<>>, days_since_significant |-> <<>>]]
             ELSE [kind |-> "summary",
                   s |-> [total_recent |-> Len(recent_earthquakes),
                          significant_recent |-> Len(recent_significant),
                          latest_earthquake |-> <<LastOf(recent_earthquakes)>>,
                          latest_significant |-> latest_significant,
                          days_since_latest |->
                              <<DaysOf(current_date - LastOf(recent_earthquakes).time)>>,
                          days_since_significant |->
                              IF latest_significant = <<>> THEN <<>>
                              ELSE <<DaysOf(current_date - latest_significant[1].time)>>]]

(***************************************************************************)
(* The catalogs, feeds and clock readings the model is checked on.         *)
(***************************************************************************)
\* the datetime of a civil date, tk ticks into the day
At(y, m, d, tk) == DayOfCivil(y, m, d) * TicksPerDay + tk

\* a row of the file
Row(t, lat, lon, depth, mag, place) ==
    [time |-> t, latitude |-> lat, longitude |-> lon, depth |-> depth,
     magnitude |-> mag, place |-> place,
     zone |-> DetermineEarthquakeZone(lat, lon), src |-> "hist"]

\* twelve significant events of central India, thirteen months apart, one in
\* each month of the year; the fourth and the ninth lie in Pakistan's box too
IndiaRows ==
    << Row(At(2012, 1, 15, 0), 20, 78, 10, 450, "a"),
       Row(At(2013, 2, 15, 1), 20, 78, 35, 500, "b"),
       Row(At(2014, 3, 15, 0), 22, 80, 10, 520, "c"),
       Row(At(2015, 4, 15, 0), 30, 70, 80, 610, "d"),
       Row(At(2016, 5, 15, 1), 20, 78, 10, 425, "e"),
       Row(At(2017, 6, 15, 0), 20, 78, 15, 480, "f"),
       Row(At(2018, 7, 15, 0), 8, 68, 10, 530, "g"),
       Row(At(2019, 8, 15, 0), 37, 97, 20, 470, "h"),
       Row(At(2020, 9, 15, 1), 30, 70, 90, 560, "i"),
       Row(At(2021, 10, 15, 0), 20, 78, 10, 440, "j"),
       Row(At(2022, 11, 15, 0), 20, 78, 25, 505, "k"),
       Row(At(2023, 12, 15, 0), 20, 78, 10, 490, "l") >>

\* rows on the outer side of India's box, and one small event inside it that
\* the file lists out of time order
EdgeRows ==
    << Row(At(2024, 2, 1, 0), 7, 78, 10, 500, "s"),
       Row(At(2024, 2, 2, 0), 38, 78, 10, 500, "n"),
       Row(At(2024, 2, 3, 0), 20, 67, 10, 500, "w"),
       Row(At(2024, 2, 4, 0), 20, 98, 10, 500, "e2"),
       Row(At(2011, 5, 1, 0), 21, 79, 10, 350, "early") >>

\* the first k rows of rows
Prefix(rows, k) == SubSeq(rows, 1, k)

\* rows with the magnitude of the first k lowered to 3.5
Weaken(rows, k) ==
    AsSeq([i \in 1..Len(rows) |->
              IF i <= k THEN [rows[i] EXCEPT !.magnitude = 350] ELSE rows[i]])

Reverse(rows) == AsSeq([i \in 1..Len(rows) |-> rows[Len(rows) + 1 - i]])

Rotate(rows) == IF rows = <<>> THEN rows ELSE Tail(rows) \o <<Head(rows)>>

\* a feature of the live feed
Feature(ms, lon, lat, depth, mag, place, complete) ==
    [time |-> ms, coords |-> <<lon, lat, depth>>, mag |-> mag, place |-> place,
     complete |-> complete]

\* the latest timestamp of IndiaRows and EdgeRows, in the feed's milliseconds
LatestMs == At(2024, 2, 4, 0) * MsPerTick

\* the files the session may find
Files ==
    { [state |-> "ok", rows |-> IndiaRows \o EdgeRows],
      [state |-> "ok", rows |-> Prefix(IndiaRows, 9) \o EdgeRows],
      [state |-> "missing", rows |-> <<>>],
      [state |-> "unreadable", rows |-> <<>>],
      [state |-> "bad_time", rows |-> IndiaRows \o EdgeRows] }

\* the answers of the live feed: a failed request, no feature, and batches
\* with features before, at and after the latest timestamp of the file, two
\* reports of one event that differ in depth only, the same feature twice,
\* features the file already holds, and a feature that lacks a key
Feeds ==
    { [status |-> "error", tz |-> 0, features |-> <<>>],
      [status |-> "ok", tz |-> 0, features |-> <<>>],
      [status |-> "ok", tz |-> 0, features |->
          << Feature(LatestMs - 5 * MsPerTick, 78, 20, <<10>>, 510, "old", TRUE),
             Feature(LatestMs, 78, 20, <<10>>, 455, "same", TRUE),
             Feature(LatestMs + 40 * MsPerTick, 78, 20, <<>>, 460, "new", TRUE) >>],
      [status |-> "ok", tz |-> 1, features |->
          << Feature(LatestMs - MsPerTick, 78, 20, <<12>>, 430, "tz", TRUE),
             Feature(LatestMs + 60 * MsPerTick, 70, 30, <<33>>, 520, "p", TRUE),
             Feature(LatestMs + 60 * MsPerTick, 70, 30, <<33>>, 520, "p", TRUE) >>],
      [status |-> "ok", tz |-> 0, features |->
          << Feature(LatestMs + 80 * MsPerTick, 78, 20, <<10>>, 470, "q", TRUE),
             Feature(LatestMs + 80 * MsPerTick, 78, 20, <<35>>, 470, "q", TRUE) >>],
      [status |-> "ok", tz |-> 0, features |->
          << Feature(LatestMs, 98, 20, <<10>>, 500, "e2", TRUE),
             Feature(LatestMs - 2 * TicksPerDay * MsPerTick, 78, 38, <<10>>, 500, "n",
                     TRUE) >>],
      [status |-> "ok", tz |-> 0, features |->
          << Feature(LatestMs + 90 * MsPerTick, 78, 20, <<10>>, 480, "r", TRUE),
             Feature(LatestMs + 95 * MsPerTick, 78, 20, <<10>>, 480, "u", FALSE) >>] }

\* the regions the user selects in the checked sessions: India and Pakistan
\* overlap, Chile holds no event of the files
SelectableRegions == {"India", "Pakistan", "Chile"}

\* the time of the session
SessionNow == At(2025, 6, 10, 1)

\* the readings of datetime.now() in one call of predict_next_earthquake that
\* starts at t, with the clock moving by drift[i] ticks before the (i+1)st read
Clock(t, drift) ==
    [t491 |-> t, t509 |-> t + drift[1], t531 |-> t + drift[1] + drift[2],
     t563 |-> t + drift[1] + drift[2] + drift[3]]

Drifts == {<<0, 0, 0>>, <<1, 0, 0>>, <<0, 1, 0>>, <<0, 0, 1>>}

\* the draws of the random source in the checked sessions
SessionDraws == [z : {-30, 0, 30}, lat : {0, 999}, lon : {500}, depth : {0, 999}]

(***************************************************************************)
(* The session: main, rerun by Streamlit on every interaction, with the    *)
(* predictor kept in st.session_state.                                     *)
(*                                                                         *)
(*   data              predictor.data                                      *)
(*   file, feed, now   the file, the live feed's answer and the clock      *)
(*   pc                the position of the current run of main             *)
(*   selected_country  the sidebar's selection                             *)
(*   recent_summary, country_data, analysis, prediction                    *)
(*                     the locals of main, <<>> while unassigned           *)
(*   calls             the predictor's methods called in the current run   *)
(*   load_ok           whether a call of load_data has returned True       *)
(*   arg, res          the argument and the results of the calls made by   *)
(*                     the specifications of the single functions          *)
(***************************************************************************)
VARIABLES data, file, feed, now, pc, selected_country, recent_summary,
          country_data, analysis, prediction, calls, load_ok, arg, res

vars == <<data, file, feed, now, pc, selected_country, recent_summary,
          country_data, analysis, prediction, calls, load_ok, arg, res>>

sessionVars == <<data, file, feed, now, pc, selected_country, recent_summary,
                 country_data, analysis, prediction, calls, load_ok>>

Init ==
    /\ data = NoneData
    /\ file \in Files
    /\ feed \in Feeds
    /\ now = SessionNow
    /\ pc = "start"
    /\ selected_country \in SelectableRegions
    /\ recent_summary = <<>>
    /\ country_data = <<>>
    /\ analysis = <<>>
    /\ prediction = <<>>
    /\ calls = <<>>
    /\ load_ok = FALSE
    /\ arg = <<>>
    /\ res = <<>>

\* if len(country_data) == 0: return
EmptyRegion(rows) == Len(rows) = 0

\* AnalysisMissing that never returns
AnalysisNeverMissing(outcome) == FALSE

\* if not analysis: return
AnalysisMissing(outcome) == outcome.kind = "none"

\* if predictor.data is None: if not predictor.load_data(): st.stop()
MainLoad ==
    /\ pc = "start"
    /\ IF data.isNone
       THEN LET r == LoadData(data, file, feed)
            IN  /\ data' = r.data
                /\ load_ok' = (load_ok \/ r.ret)
                /\ calls' = Append(calls, "load_data")
                /\ pc' = IF r.ret THEN "sidebar" ELSE "stopped"
       ELSE /\ pc' = "sidebar"
            /\ UNCHANGED <<data, load_ok, calls>>
    /\ UNCHANGED <<file, feed, now, selected_country, recent_summary, country_data,
                   analysis, prediction, arg, res>>

\* recent_summary = predictor.get_recent_earthquake_summary(selected_country)
MainSummary ==
    /\ pc = "sidebar"
    /\ recent_summary' = <<GetRecentEarthquakeSummary(data, selected_country, now)>>
    /\ calls' = Append(calls, "get_recent_earthquake_summary")
    /\ pc' = "button"
    /\ UNCHANGED <<data, file, feed, now, selected_country, country_data, analysis,
                   prediction, load_ok, arg, res>>

\* the button was not pressed: the run ends after the sidebar
MainNoRequest ==
    /\ pc = "button"
    /\ pc' = "end"
    /\ UNCHANGED <<data, file, feed, now, selected_country, recent_summary,
                   country_data, analysis, prediction, calls, load_ok, arg, res>>

\* MainFilter with the region's rows selected in the catalog itself, not in a
\* copy of it
MainFilterInPlace ==
    /\ pc = "button"
    /\ country_data' = <<FilterCountryData(data.rows, selected_country)>>
    /\ data' = [data EXCEPT !.rows = country_data'[1]]
    /\ calls' = Append(calls, "filter_country_data")
    /\ pc' = IF EmptyRegion(country_data'[1]) THEN "end" ELSE "analyze"
    /\ UNCHANGED <<file, feed, now, selected_country, recent_summary, analysis,
                   prediction, load_ok, arg, res>>

\* the button was pressed: country_data = predictor.filter_country_data(...)
MainFilter ==
    /\ pc = "button"
    /\ country_data' = <<FilterCountryData(data.rows, selected_country)>>
    /\ calls' = Append(calls, "filter_country_data")
    /\ pc' = IF EmptyRegion(country_data'[1]) THEN "end" ELSE "analyze"
    /\ UNCHANGED <<data, file, feed, now, selected_country, recent_summary, analysis,
                   prediction, load_ok, arg, res>>

\* analysis = predictor.analyze_earthquake_patterns(country_data)
MainAnalyze ==
    /\ pc = "analyze"
    /\ LET outcome == AnalyzeEarthquakePatterns(country_data[1], data.parsed, now)
       IN  /\ analysis' = <<outcome>>
           /\ pc' = IF outcome.kind = "raised" THEN "raised"
                    ELSE IF AnalysisMissing(outcome) THEN "end"
                    ELSE "predict"
    /\ calls' = Append(calls, "analyze_earthquake_patterns")
    /\ UNCHANGED <<data, file, feed, now, selected_country, recent_summary,
                   country_data, prediction, load_ok, arg, res>>

\* prediction = predictor.predict_next_earthquake(selected_country, analysis)
MainPredict ==
    /\ pc = "predict"
    /\ \E rnd \in SessionDraws, drift \in Drifts :
           prediction' = <<PredictNextEarthquake(selected_country, analysis[1],
                                                 Clock(now, drift), rnd)>>
    /\ calls' = Append(calls, "predict_next_earthquake")
    /\ pc' = "end"
    /\ UNCHANGED <<data, file, feed, now, selected_country, recent_summary,
                   country_data, analysis, load_ok, arg, res>>

\* an interaction reruns main: the locals are gone, the predictor is kept
Rerun ==
    /\ pc \in {"end", "stopped", "raised"}
    /\ pc' = "start"
    /\ selected_country' \in SelectableRegions
    /\ recent_summary' = <<>>
    /\ country_data' = <<>>
    /\ analysis' = <<>>
    /\ prediction' = <<>>
    /\ calls' = <<>>
    /\ UNCHANGED <<data, file, feed, now, load_ok, arg, res>>

Next ==
    \/ MainLoad
    \/ MainSummary
    \/ MainNoRequest
    \/ MainFilter
    \/ MainAnalyze
    \/ MainPredict
    \/ Rerun

Spec == Init /\ [][Next]_vars

(***************************************************************************)
(* analyze_earthquake_patterns called twice: on a region's events at       *)
(* nowA, then on the same events in another order at nowB.                 *)
(***************************************************************************)
\* a small event of 2024 and an event at the timestamp of the last of
\* IndiaRows
MoreRows ==
    << Row(At(2024, 6, 1, 0), 20, 78, 10, 380, "m"),
       Row(At(2023, 12, 15, 0), 21, 78, 75, 700, "t") >>

\* 12 events of magnitude 5.0, 365 days apart, all in June
JuneRows ==
    AsSeq([i \in 1..12 |->
              Row(At(2010, 6, 15, 0) + Days(365 * (i - 1)), 20, 78, 10, 500, "j")])

\* a swarm of 13 events 29 days apart through every month of 2010, then three
\* events 30, 30 and 3650 days apart
ClusterRows ==
    AsSeq([i \in 1..16 |->
              Row(At(2010, 1, 1, 0)
                      + Days(IF i <= 13 THEN 29 * (i - 1)
                             ELSE IF i = 14 THEN 378
                             ELSE IF i = 15 THEN 408
                             ELSE 4058),
                  20, 78, 10, 450, "c")])

\* region event sets around the three gates: fewer than 10 events, fewer than
\* 5 significant ones, too few intervals, a month without event, and complete
Catalogs ==
    { Weaken(Prefix(IndiaRows \o MoreRows, k), w) :
          k \in {4, 9, 10, 12, 13, 14}, w \in {0, 6, 8} }
        \cup {JuneRows, ClusterRows, Prefix(ClusterRows, 15)}

AnalyzeNows ==
    {At(2025, 6, 10, 0), At(2025, 6, 10, 1), At(2031, 3, 1, 0), At(2032, 3, 1, 0)}

Reorder(rows, order) ==
    IF order = "reverse" THEN Reverse(rows)
    ELSE IF order = "rotate" THEN Rotate(rows)
    ELSE rows

AnalyzeInputs ==
    [rows : Catalogs, order : {"same", "reverse", "rotate"},
     nowA : AnalyzeNows, nowB : AnalyzeNows]

\* the session's variables of a specification that runs no session
NoSession ==
    /\ data = NoneData
    /\ file = [state |-> "missing", rows |-> <<>>]
    /\ feed = [status |-> "error", tz |-> 0, features |-> <<>>]
    /\ now = SessionNow
    /\ pc = "off"
    /\ selected_country = "India"
    /\ recent_summary = <<>>
    /\ country_data = <<>>
    /\ analysis = <<>>
    /\ prediction = <<>>
    /\ calls = <<>>
    /\ load_ok = FALSE

InitAnalyze ==
    /\ NoSession
    /\ arg \in AnalyzeInputs
    /\ res = [first |-> <<>>, second |-> <<>>]

AnalyzeFirst ==
    /\ res.first = <<>>
    /\ res' = [res EXCEPT
                 !.first = <<AnalyzeEarthquakePatterns(arg.rows, TRUE, arg.nowA)>>]
    /\ UNCHANGED <<sessionVars, arg>>

AnalyzeSecond ==
    /\ res.first # <<>>
    /\ res.second = <<>>
    /\ res' = [res EXCEPT
                 !.second = <<AnalyzeEarthquakePatterns(Reorder(arg.rows, arg.order),
                                                        TRUE, arg.nowB)>>]
    /\ UNCHANGED <<sessionVars, arg>>

NextAnalyze ==
    \/ AnalyzeFirst
    \/ AnalyzeSecond

SpecAnalyze == InitAnalyze /\ [][NextAnalyze]_vars

(***************************************************************************)
(* predict_next_earthquake called on one analysis.  The analyses are the   *)
(* one of IndiaRows with the fields a part of the forecast reads replaced. *)
(***************************************************************************)
BaseNow == At(2025, 6, 10, 1)

BaseAnalysis == PatternAnalysis(IndiaRows, BaseNow)

FixedDraw == [z |-> 0, lat |-> 500, lon |-> 500, depth |-> 500]

\* std_interval_days of the coefficient of variation cv (thousandths)
StdOf(avg, cv) == (avg * cv) \div 1000

\* analyses for the dates: the age of the last event, the median interval,
\* the recent frequency, the variability and the peak months vary
DateInputs ==
    UNION {
        { [country |-> "India",
           outcome |-> [kind |-> "analysis",
                        a |-> [base EXCEPT
                                 !.last_major_earthquake = t - age,
                                 !.median_interval_days = md,
                                 !.avg_interval_days = 5 * md,
                                 !.std_interval_days = StdOf(5 * md, cv),
                                 !.recent_frequency = n,
                                 !.peak_months = pm]],
           clk |-> Clock(t, drift),
           rnd |-> FixedDraw] :
              t \in {BaseNow, At(2025, 12, 31, 1)},
              age \in {Days(14610), Days(1100), Days(200) + 1, Days(10)},
              md \in {60, 793, 7300},
              n \in {0, 1, 12},
              cv \in {0, 100, 1200},
              pm \in {<<6>>, <<7, 8>>, <<1, 2>>, <<12>>},
              drift \in Drifts }
        : base \in {BaseAnalysis} }

\* analyses for the future projection: the first estimate lies a whole or a
\* fractional number of weighted intervals in the past (40 years and 5 years
\* among them), or in the future half a day further from the peak-month
\* candidate than half the weighted interval
ProjectionInputs ==
    UNION {
        { [country |-> "India",
           outcome |-> [kind |-> "analysis",
                        a |-> [base EXCEPT
                                 !.last_major_earthquake = BaseNow - overdue[1],
                                 !.median_interval_days = overdue[2],
                                 !.avg_interval_days = 5 * overdue[2],
                                 !.std_interval_days = StdOf(5 * overdue[2], cv),
                                 !.recent_frequency = 0,
                                 !.peak_months = pm]],
           clk |-> Clock(BaseNow, <<0, 0, 0>>),
           rnd |-> FixedDraw] :
              overdue \in {<<Days(40 * 365), 2 * 5 * 365>>, <<Days(14610), 3653>>,
                           <<Days(793), 793>>, <<Days(793) + 1, 793>>,
                           <<Days(1189) + 1, 793>>, <<Days(800), 800>>,
                           <<Days(1200), 800>>, <<Days(400), 800>>,
                           <<Days(376), 793>>},
              cv \in {0, 100},
              pm \in {<<6>>, <<1, 2>>} }
        : base \in {BaseAnalysis} }

FlatMonths == [m \in 1..12 |-> 1]
PeakedMonths == [m \in 1..12 |-> IF m = 2 THEN 5 ELSE 1]
MildMonths == [m \in 1..12 |-> IF m \in {2, 3, 4} THEN 3 ELSE 2]
HalfYearMonths == [m \in 1..6 |-> 2]

\* analyses for the confidence: every factor and every penalty varies
ConfidenceInputs ==
    UNION {
        { [country |-> "India",
           outcome |-> [kind |-> "analysis",
                        a |-> [base EXCEPT
                                 !.last_major_earthquake = BaseNow - age,
                                 !.total_earthquakes = total,
                                 !.std_interval_days = StdOf(base.avg_interval_days, cv),
                                 !.monthly_distribution = dist,
                                 !.shallow_count = depths[1],
                                 !.deep_count = depths[2]]],
           clk |-> Clock(BaseNow, <<0, 0, 0>>),
           rnd |-> FixedDraw] :
              age \in {Days(100), Days(1000), Days(3000), Days(3651), Days(8000)},
              total \in {5, 12, 19, 49, 50, 120},
              cv \in {0, 100, 300, 500, 800, 1200},
              dist \in {FlatMonths, PeakedMonths, MildMonths, HalfYearMonths},
              depths \in {<<12, 0>>, <<7, 5>>, <<8, 4>>, <<0, 0>>} }
        : base \in {BaseAnalysis} }

\* analyses for the magnitude: the mean, the trend, the spread, the observed
\* range (to one and to two decimals), the recent frequency and the noise vary
MagnitudeInputs ==
    UNION {
        { [country |-> "India",
           outcome |-> [kind |-> "analysis",
                        a |-> [base EXCEPT
                                 !.min_magnitude = range[1],
                                 !.avg_magnitude = range[2],
                                 !.max_magnitude = range[3],
                                 !.magnitude_trend = range[2] + trend,
                                 !.magnitude_std = std,
                                 !.recent_frequency_5yr = f5]],
           clk |-> Clock(BaseNow, <<0, 0, 0>>),
           rnd |-> [FixedDraw EXCEPT !.z = z]] :
              range \in {<<400, 45000, 610>>, <<430, 45000, 480>>,
                         <<422, 47000, 638>>, <<880, 91000, 930>>},
              trend \in {0, 1600, -3000},
              std \in {200, 450, 700},
              f5 \in {0, 80},
              z \in {-40, -2, 0, 2, 40} }
        : base \in {BaseAnalysis} }

PredictInputs ==
    DateInputs \cup ProjectionInputs \cup ConfidenceInputs \cup MagnitudeInputs

InitPredict ==
    /\ NoSession
    /\ arg \in PredictInputs
    /\ res = <<>>

ApplyPredict ==
    /\ res = <<>>
    /\ res' = <<PredictNextEarthquake(arg.country, arg.outcome, arg.clk, arg.rnd)>>
    /\ UNCHANGED <<sessionVars, arg>>

NextPredict == ApplyPredict

SpecPredict == InitPredict /\ [][NextPredict]_vars

(***************************************************************************)
(* Single calls of filter_country_data, _assess_data_quality and          *)
(* get_recent_earthquake_summary.                                          *)
(***************************************************************************)
\* identifiers given to the filter: registered ones and others
Identifiers == {"India", "Chile", "Atlantis", "india", ""}

\* the states of self.data the filter is called in
FilterData ==
    { NoneData,
      [isNone |-> FALSE, parsed |-> FALSE, rows |-> IndiaRows],
      [isNone |-> FALSE, parsed |-> TRUE, rows |-> IndiaRows],
      [isNone |-> FALSE, parsed |-> TRUE, rows |-> Prefix(IndiaRows, 9) \o EdgeRows] }

\* count significant events spread evenly over span days, the last one
\* mag_range above the others
QualityRows(count, span, mag_range) ==
    LET first == At(1950, 1, 1, 0)
    IN  AsSeq([i \in 1..count |->
                  Row(first + (Days(span) * (i - 1)) \div (count - 1), 20, 78, 10,
                      IF i = count THEN 400 + mag_range ELSE 400, "s")])

\* event sets and clock readings on both sides of every threshold of the score
QualityInputs ==
    { [rows |-> QualityRows(count, span, mag_range),
       now |-> At(1950, 1, 1, 0) + Days(span) + Days(age) + tk] :
          count \in {5, 20, 50, 100},
          span \in {3652, 3653, 7305, 18263},
          mag_range \in {50, 100, 200, 300},
          age \in {365, 366, 1826, 3651},
          tk \in {0, 1} }

\* the catalogs and clock readings the summary is called on: the trailing 365
\* days hold significant events, only a minor event, or no event of India
SummaryData ==
    { [isNone |-> FALSE, parsed |-> TRUE, rows |-> SortByTime(IndiaRows \o EdgeRows)],
      [isNone |-> FALSE, parsed |-> TRUE,
       rows |-> SortByTime(IndiaRows \o EdgeRows \o MoreRows)],
      [isNone |-> FALSE, parsed |-> FALSE, rows |-> IndiaRows \o EdgeRows] }

SummaryNows ==
    {At(2024, 2, 10, 0), At(2024, 12, 14, 1), At(2025, 1, 1, 0), At(2025, 6, 10, 1)}

InitMethods ==
    /\ NoSession
    /\ arg = <<>>
    /\ res = <<>>

CallFilter ==
    /\ arg = <<>>
    /\ \E d \in FilterData, c \in Identifiers :
           /\ arg' = [op |-> "filter_country_data", data |-> d, country |-> c]
           /\ res' = <<FilterCountryDataCall(d, c)>>
    /\ UNCHANGED sessionVars

CallAssessDataQuality ==
    /\ arg = <<>>
    /\ \E q \in QualityInputs :
           /\ arg' = [op |-> "_assess_data_quality", rows |-> q.rows, now |-> q.now]
           /\ res' = <<AssessDataQuality(q.rows, q.now)>>
    /\ UNCHANGED sessionVars

CallSummary ==
    /\ arg = <<>>
    /\ \E d \in SummaryData, c \in SelectableRegions, t \in SummaryNows :
           /\ arg' = [op |-> "get_recent_earthquake_summary", data |-> d,
                      country |-> c, now |-> t]
           /\ res' = <<GetRecentEarthquakeSummary(d, c, t)>>
    /\ UNCHANGED sessionVars

\* coordinates on, just inside and just outside every edge of the three belts
ZoneLatitudes == {-61, -60, 19, 20, 35, 50, 51, 70, 71}

ZoneLongitudes == {-180, -101, -100, -99, -41, -40, -10, -9, 109, 110, 139, 160, 161, 180}

CallZone ==
    /\ arg = <<>>
    /\ \E lat \in ZoneLatitudes, lon \in ZoneLongitudes :
           /\ arg' = [op |-> "_determine_earthquake_zone", lat |-> lat, lon |-> lon]
           /\ res' = <<DetermineEarthquakeZone(lat, lon)>>
    /\ UNCHANGED sessionVars

NextMethods ==
    \/ CallFilter
    \/ CallAssessDataQuality
    \/ CallSummary
    \/ CallZone

SpecMethods == InitMethods /\ [][NextMethods]_vars

(***************************************************************************)
(* Properties.                                                             *)
(***************************************************************************)
Called(name) == \E i \in 1..Len(calls) : calls[i] = name

\* the position of the first call of name in the current run (0: not called)
FirstCall(name) ==
    IF Called(name) THEN CHOOSE i \in 1..Len(calls) :
                             calls[i] = name /\ \A j \in 1..(i - 1) : calls[j] # name
    ELSE 0

\* the rows of self.data that lie in the region's box, bounds included
RowsInBox(country) ==
    {i \in 1..Len(data.rows) :
        /\ COUNTRY_COORDS[country].lat_range[1] <= data.rows[i].latitude
        /\ data.rows[i].latitude <= COUNTRY_COORDS[country].lat_range[2]
        /\ COUNTRY_COORDS[country].lon_range[1] <= data.rows[i].longitude
        /\ data.rows[i].longitude <= COUNTRY_COORDS[country].lon_range[2]}

\* C1: the output of filter_country_data for a registered region holds a row
\* of the catalog iff the row's latitude and longitude lie within the region's
\* box, both bounds included: no row outside the box is returned and no row
\* inside it is dropped (or returned twice).
C1_FilterIsTheBox ==
    country_data # <<>> =>
        /\ \A i \in 1..Len(data.rows) :
               (\E j \in 1..Len(country_data[1]) : country_data[1][j] = data.rows[i])
                   <=> i \in RowsInBox(selected_country)
        /\ \A j \in 1..Len(country_data[1]) :
               \E i \in RowsInBox(selected_country) : data.rows[i] = country_data[1][j]
        /\ Len(country_data[1]) = Cardinality(RowsInBox(selected_country))

\* India was filtered: rows on the box's bounds were kept, rows just outside
\* were left out
C1_Witness ==
    /\ country_data # <<>>
    /\ selected_country = "India"
    /\ \E j \in 1..Len(country_data[1]) :
           country_data[1][j].latitude = 37 /\ country_data[1][j].longitude = 97
    /\ \E j \in 1..Len(country_data[1]) :
           country_data[1][j].latitude = 8 /\ country_data[1][j].longitude = 68
    /\ \E i \in 1..Len(data.rows) : data.rows[i].latitude = 38
    /\ Len(country_data[1]) < Len(data.rows)

\* C6: in a run of main, predict_next_earthquake is called only after
\* filter_country_data returned a non-empty set and analyze_earthquake_patterns
\* returned an analysis, in that order and in the same run; for a region
\* without events the filter returns the empty set, and neither the analyzer
\* nor the forecast is called.
C6_ForecastOnlyAfterAnalysis ==
    /\ Called("predict_next_earthquake") =>
           /\ 0 < FirstCall("filter_country_data")
           /\ FirstCall("filter_country_data") < FirstCall("analyze_earthquake_patterns")
           /\ FirstCall("analyze_earthquake_patterns")
                  < FirstCall("predict_next_earthquake")
           /\ country_data # <<>> /\ Len(country_data[1]) > 0
           /\ analysis # <<>> /\ analysis[1].kind = "analysis"
    /\ prediction # <<>> => Called("predict_next_earthquake")
    /\ (country_data # <<>> /\ RowsInBox(selected_country) = {}) =>
           /\ country_data[1] = <<>>
           /\ ~Called("analyze_earthquake_patterns")
           /\ ~Called("predict_next_earthquake")
           /\ analysis = <<>>
           /\ prediction = <<>>

\* a forecast was produced in a run
C6_Witness ==
    /\ prediction # <<>>
    /\ prediction[1].kind = "forecast"
    /\ Len(country_data[1]) >= 10

\* C7: as long as no call of load_data has returned True, the predictor's
\* catalog is unset and the run has called no method but load_data.
C7_NoPartialOperation ==
    ~load_ok =>
        /\ data.isNone
        /\ \A i \in 1..Len(calls) : calls[i] = "load_data"

\* C8: every row of the catalog that came from the live feed is strictly
\* later than the latest row of the file.
C8_LiveRowsAfterLatest ==
    (~data.isNone /\ data.parsed) =>
        \A i \in 1..Len(data.rows) :
            data.rows[i].src = "live" => data.rows[i].time > MaxTime(file.rows)

\* the feed held a feature not later than the file's latest row, and the
\* catalog holds rows of the feed
C8_Witness ==
    /\ ~data.isNone /\ data.parsed
    /\ \E i \in 1..Len(data.rows) : data.rows[i].src = "live"
    /\ \E k \in 1..Len(feed.features) :
           feed.features[k].time \div MsPerTick + feed.tz <= MaxTime(file.rows)

RowKey(r) == <<r.time, r.latitude, r.longitude, r.magnitude>>

\* C9: once a batch of the feed was merged, no two rows of the catalog have
\* the same (time, latitude, longitude, magnitude); and a batch of events the
\* file already holds leaves the number of rows unchanged.
C9_NoDuplicateKeys ==
    (~data.isNone /\ data.parsed) =>
        /\ (\E i \in 1..Len(data.rows) : data.rows[i].src = "live") =>
               \A i, j \in 1..Len(data.rows) :
                   i # j => RowKey(data.rows[i]) # RowKey(data.rows[j])
        /\ (\A k \in 1..Len(feed.features) :
                \E i \in 1..Len(file.rows) :
                    RowKey(file.rows[i]) =
                        <<feed.features[k].time \div MsPerTick + feed.tz,
                          feed.features[k].coords[2], feed.features[k].coords[1],
                          feed.features[k].mag>>) =>
               Len(data.rows) = Len(file.rows)

SignificantCount(rows) == Cardinality({i \in 1..Len(rows) : rows[i].magnitude >= 400})

\* C5: given fewer than 10 events, or fewer than 5 events of magnitude 4.0 or
\* more, analyze_earthquake_patterns returns None.
C5_InsufficientData ==
    (res.first # <<>> /\ (Len(arg.rows) < 10 \/ SignificantCount(arg.rows) < 5)) =>
        res.first[1].kind = "none"

\* the analyzer was called on 10 or more events of which 4 are significant
C5_Witness ==
    /\ res.first # <<>>
    /\ Len(arg.rows) >= 10
    /\ SignificantCount(arg.rows) = 4
    /\ res.first[1].kind = "none"

\* the latest significant event of the first call's input
LatestSignificant == MaxTime(SelectSeq(arg.rows, IsSignificant))

\* the two calls read the clock in the same calendar year and at the same
\* whole number of days after the latest significant event
SameClockReading ==
    /\ YearOf(arg.nowA) = YearOf(arg.nowB)
    /\ SignificantCount(arg.rows) > 0 =>
           (arg.nowA - LatestSignificant) \div TicksPerDay
               = (arg.nowB - LatestSignificant) \div TicksPerDay

C2_DatesInFuture ==
    (res # <<>> /\ res[1].kind = "forecast") =>
        /\ res[1].f.predicted_date > arg.clk.t531
        /\ res[1].f.date_range[1] > arg.clk.t531
        /\ res[1].f.date_range[2] > arg.clk.t531

\* a forecast whose first estimate lay in the past, whose date was snapped to
\* a peak month and whose window had to be shifted
C2_Witness ==
    /\ res # <<>> /\ res[1].kind = "forecast"
    /\ FirstEstimate(arg.outcome.a) <= arg.clk.t491
    /\ SnappedDate(arg.outcome.a, arg.clk)
           # FutureProject(FirstEstimate(arg.outcome.a),
                           WeightedInterval(arg.outcome.a), arg.clk.t491)
    /\ WindowStart(arg.outcome.a, arg.clk) <= arg.clk.t531
    /\ res[1].f.date_range[1] > arg.clk.t531

\* C3: predicted_magnitude lies within
\* [max(4.0, min_magnitude), min(max_magnitude + 0.5, 9.5)].
C3_MagnitudeWithinBounds ==
    (res # <<>> /\ res[1].kind = "forecast") =>
        /\ res[1].f.predicted_magnitude >= Max(400, arg.outcome.a.min_magnitude)
        /\ res[1].f.predicted_magnitude <= Min(arg.outcome.a.max_magnitude + 50, 950)

\* C4: confidence_percentage is between 35 and 85 inclusive.
C4_ConfidenceWithinBounds ==
    (res # <<>> /\ res[1].kind = "forecast") =>
        /\ res[1].f.confidence_percentage >= 35
        /\ res[1].f.confidence_percentage <= 85

\* a forecast whose factors sum to more than 85 points
C4_Witness ==
    /\ res # <<>> /\ res[1].kind = "forecast"
    /\ RawConfidence(arg.outcome.a, res[1].f.days_since_last) > 2 * 85
    /\ res[1].f.confidence_percentage = 85

QualityCall == arg # <<>> /\ arg.op = "_assess_data_quality"

\* the four sub-scores of the call's event set, in the order of the code
SubScores ==
    << TimeSpanScore(arg.rows), EventCountScore(arg.rows),
       RecencyScore(arg.rows, arg.now), MagRangeScore(arg.rows) >>

\* C11: the score _assess_data_quality returns for a set of significant
\* events is between 0 and 100 inclusive and is the sum of the four sub-scores
\* (time span, event count, recency, magnitude range), each at most 25.
C11_QualityScoreBounded ==
    QualityCall =>
        /\ res[1] >= 0 /\ res[1] <= 100
        /\ res[1] = SubScores[1] + SubScores[2] + SubScores[3] + SubScores[4]
        /\ \A k \in 1..4 : SubScores[k] >= 0 /\ SubScores[k] <= 25

\* a set of 100 events over 50 years with a wide magnitude range and a recent
\* last event scores 100
C11_Witness ==
    /\ QualityCall
    /\ Len(arg.rows) = 100
    /\ res[1] = 100

FilterCall == arg # <<>> /\ arg.op = "filter_country_data"

\* C14: filter_country_data called with an identifier that is not in the
\* registry returns an empty result and raises nothing, whatever self.data is.
C14_UnknownRegionIsEmpty ==
    (FilterCall /\ arg.country \notin DOMAIN COUNTRY_COORDS) =>
        /\ res[1].kind = "frame"
        /\ res[1].rows = <<>>

\* the filter was called with an unknown identifier while self.data was None
C14_Witness ==
    /\ FilterCall
    /\ arg.country = "Atlantis"
    /\ arg.data.isNone
    /\ res[1].kind = "frame"

\* the live feed failed: the request failed, or building the records raised
\* on a feature that lacks a key
FeedFailed ==
    \/ feed.status = "error"
    \/ \E k \in 1..Len(feed.features) : ~feed.features[k].complete

\* C12: when the fetch of the live feed fails, load_data still returns True
\* and the catalog is the file's catalog; the run is not stopped, and the
\* filter works on the file's rows.
C12_FeedFailureKeepsCatalog ==
    (file.state = "ok" /\ FeedFailed) =>
        /\ Called("load_data") => (load_ok /\ pc # "stopped")
        /\ ~data.isNone => (load_ok /\ data.parsed /\ data.rows = file.rows)
        /\ country_data # <<>> =>
               \A j \in 1..Len(country_data[1]) :
                   \E i \in 1..Len(file.rows) : file.rows[i] = country_data[1][j]

\* the feed failed on a feature lacking a key, and a forecast was produced
\* from the file's rows
C12_Witness ==
    /\ file.state = "ok"
    /\ feed.status = "ok" /\ FeedFailed
    /\ \E k \in 1..Len(feed.features) :
           feed.features[k].complete
               /\ feed.features[k].time \div MsPerTick + feed.tz > MaxTime(file.rows)
    /\ prediction # <<>>
    /\ prediction[1].kind = "forecast"

\* C13: when a batch of the feed holds a record that lacks a required field,
\* only that record is dropped: every complete record of the batch that is
\* strictly later than the file's latest row is in the catalog.
C13_OnlyMalformedDropped ==
    (file.state = "ok" /\ feed.status = "ok" /\ ~data.isNone) =>
        \A k \in 1..Len(feed.features) :
            (/\ feed.features[k].complete
             /\ feed.features[k].time \div MsPerTick + feed.tz > MaxTime(file.rows)) =>
                \E i \in 1..Len(data.rows) :
                    /\ data.rows[i].src = "live"
                    /\ data.rows[i].time = feed.features[k].time \div MsPerTick + feed.tz
                    /\ data.rows[i].place = feed.features[k].place

\* the rows are 12 events of magnitude 5.0, each 365 days after the one
\* before, all in June
ConstantIntervalScenario(rows) ==
    /\ Len(rows) = 12
    /\ \A i \in 1..12 : rows[i].magnitude = 500 /\ MonthOf(rows[i].time) = 6
    /\ \A i \in 1..11 : rows[i + 1].time - rows[i].time = 365 * TicksPerDay

\* C15: for 12 significant events 365 days apart, all of magnitude 5.0 and all
\* in June, the analyzer returns an analysis with peak_months = [6],
\* peak_season = summer, mean and median interval 365 days, standard deviation
\* 0, and the forecast's pattern strength is "Strong".
C15_ConstantIntervalScenario ==
    (res.first # <<>> /\ ConstantIntervalScenario(arg.rows)) =>
        /\ res.first[1].kind = "analysis"
        /\ res.first[1].a.peak_months = <<6>>
        /\ res.first[1].a.peak_season = "summer"
        /\ res.first[1].a.avg_interval_days = 3650
        /\ res.first[1].a.median_interval_days = 730
        /\ res.first[1].a.std_interval_days = 0
        /\ PatternStrength(res.first[1].a) = "Strong"

\* C19: each of the four consistency metrics of a returned analysis lies in
\* [0, 1].
C19_ConsistencyWithinUnit ==
    (res.first # <<>> /\ res.first[1].kind = "analysis") =>
        LET m == res.first[1].a.consistency_metrics
        IN  /\ m.temporal_consistency >= 0 /\ m.temporal_consistency <= 1000
            /\ m.magnitude_consistency >= 0 /\ m.magnitude_consistency <= 1000
            /\ m.depth_consistency >= 0 /\ m.depth_consistency <= 1000
            /\ m.seasonal_consistency >= 0 /\ m.seasonal_consistency <= 1000

\* the days between the significant events of the call, in order of time
RawIntervals == TimeDiffs(SortByTime(SelectSeq(arg.rows, IsSignificant)))

\* C20: a returned analysis is computed from at least 3 surviving intervals,
\* each between 30 and 7300 days inclusive; if fewer than 3 intervals survive
\* the outlier filter, no analysis is returned.
C20_IntervalsSurvive ==
    res.first # <<>> =>
        /\ res.first[1].kind = "analysis" =>
               /\ Len(res.first[1].a.time_intervals) >= 3
               /\ \A i \in 1..Len(res.first[1].a.time_intervals) :
                      /\ res.first[1].a.time_intervals[i] >= 30
                      /\ res.first[1].a.time_intervals[i] <= 7300
        /\ (/\ SignificantCount(arg.rows) >= 2
            /\ \/ Len(FilterIntervals(RawIntervals)) < 3
               \/ Cardinality({i \in 1..Len(RawIntervals) :
                                  RawIntervals[i] >= 30 /\ RawIntervals[i] <= 7300}) < 3) =>
               res.first[1].kind # "analysis"

\* an analysis on exactly 3 intervals that survived out of 15
C20_Witness ==
    /\ res.first # <<>>
    /\ res.first[1].kind = "analysis"
    /\ Len(res.first[1].a.time_intervals) = 3
    /\ Len(RawIntervals) = 15

\* the number of weighted intervals the call advances its first estimate by
AdvancedCycles ==
    FutureCycles(FirstEstimate(arg.outcome.a), WeightedInterval(arg.outcome.a),
                 arg.clk.t491)

\* C16: when the first estimate (last significant event + weighted interval)
\* is not strictly after now, the correction advances it by the smallest whole
\* number of weighted intervals that puts it strictly after now; with the last
\* event 40 years ago and a weighted interval of 5 years that is at least 8.
C16_SmallestAdvance ==
    (res # <<>> /\ FirstEstimate(arg.outcome.a) <= arg.clk.t491) =>
        /\ AdvancedCycles >= 1
        /\ FirstEstimate(arg.outcome.a)
               + AdvancedCycles * WeightedInterval(arg.outcome.a) > arg.clk.t491
        /\ FirstEstimate(arg.outcome.a)
               + (AdvancedCycles - 1) * WeightedInterval(arg.outcome.a) <= arg.clk.t491
        /\ (/\ arg.clk.t491 - arg.outcome.a.last_major_earthquake = Days(40 * 365)
            /\ WeightedInterval(arg.outcome.a) = Days(5 * 365)) =>
               AdvancedCycles >= 8

SummaryCall == arg # <<>> /\ arg.op = "get_recent_earthquake_summary"

\* the rows of the call's catalog that are significant events of its region,
\* and those of them within the 365 days before the call
RegionSignificant ==
    {i \in 1..Len(arg.data.rows) :
        /\ arg.data.rows[i].magnitude >= 400
        /\ COUNTRY_COORDS[arg.country].lat_range[1] <= arg.data.rows[i].latitude
        /\ arg.data.rows[i].latitude <= COUNTRY_COORDS[arg.country].lat_range[2]
        /\ COUNTRY_COORDS[arg.country].lon_range[1] <= arg.data.rows[i].longitude
        /\ arg.data.rows[i].longitude <= COUNTRY_COORDS[arg.country].lon_range[2]}

RecentSignificant ==
    {i \in RegionSignificant : arg.data.rows[i].time >= arg.now - 365 * TicksPerDay}

\* the time of the latest of the rows idx
LatestOf(idx) ==
    CHOOSE t \in {arg.data.rows[i].time : i \in idx} :
        \A i \in idx : arg.data.rows[i].time <= t

\* C17: for a region with a significant event anywhere in its history, the
\* summary reports a most recent significant event and its age in days: the
\* latest one of the trailing 365 days if there is one, else the latest one of
\* the whole history, also when the trailing 365 days hold no event at all.
C17_SignificantFallback ==
    (SummaryCall /\ arg.data.parsed /\ RegionSignificant # {}) =>
        /\ res[1].kind = "summary"
        /\ res[1].s.latest_significant # <<>>
        /\ res[1].s.latest_significant[1].time =
               LatestOf(IF RecentSignificant # {} THEN RecentSignificant
                        ELSE RegionSignificant)
        /\ res[1].s.days_since_significant =
               <<(arg.now - res[1].s.latest_significant[1].time) \div TicksPerDay>>

\* C18: the summary is the null result exactly when the region has no event
\* in the catalog, and is a record with total_recent = 0 when the region has
\* events but none within the trailing 365 days.
C18_NullOnlyForEmptyRegion ==
    recent_summary # <<>> =>
        /\ recent_summary[1].kind = "none" <=> RowsInBox(selected_country) = {}
        /\ (/\ RowsInBox(selected_country) # {}
            /\ \A i \in RowsInBox(selected_country) :
                   data.rows[i].time < now - 365 * TicksPerDay) =>
               /\ recent_summary[1].kind = "summary"
               /\ recent_summary[1].s.total_recent = 0

\* the significant events of the first call within the trailing 10 calendar
\* years, and the years they fall in
RecentSignificantRows ==
    SelectSeq(arg.rows,
              LAMBDA r : r.magnitude >= 400 /\ YearOf(r.time) >= YearOf(arg.nowA) - 10)

RecentYears ==
    {YearOf(RecentSignificantRows[i].time) : i \in 1..Len(RecentSignificantRows)}

\* C21: magnitude_trend is the mean of the per-year mean magnitudes of the
\* significant events of the trailing 10 years when these cover at least 3
\* distinct years, and the overall mean magnitude otherwise, also when 3 or
\* more recent events fall in fewer than 3 distinct years.
C21_TrendOverDistinctYears ==
    (res.first # <<>> /\ res.first[1].kind = "analysis") =>
        res.first[1].a.magnitude_trend =
            IF Cardinality(RecentYears) >= 3
            THEN MeanOfYearlyMeans(RecentSignificantRows)
            ELSE res.first[1].a.avg_magnitude

ZoneCall == arg # <<>> /\ arg.op = "_determine_earthquake_zone"

ZoneLabels ==
    {"pacific_ring_zone", "mediterranean_himalayan_zone", "atlantic_ridge_zone",
     "global_zone"}

PredicatesHolding(lat, lon) ==
    Cardinality({k \in 1..3 :
                    \/ k = 1 /\ InPacificRing(lat, lon)
                    \/ k = 2 /\ InMediterraneanHimalayan(lat, lon)
                    \/ k = 3 /\ InAtlanticRidge(lat, lon)})

\* C22 (as stated): _determine_earthquake_zone returns one of the four zone
\* labels and no coordinate satisfies two of the three geographic predicates.
C22_PredicatesDisjoint ==
    ZoneCall =>
        /\ res[1] \in ZoneLabels
        /\ PredicatesHolding(arg.lat, arg.lon) <= 1

\* C22 (amended): _determine_earthquake_zone is total and returns exactly one
\* of the four labels, the label of the first predicate that holds in the
\* order pacific ring, mediterranean-himalayan, atlantic ridge, and global
\* when none holds; the pacific ring and the atlantic ridge are disjoint, the
\* mediterranean-himalayan belt overlaps both, so there the order decides.
C22_FirstMatchingZone ==
    ZoneCall =>
        LET pac == InPacificRing(arg.lat, arg.lon)
            med == InMediterraneanHimalayan(arg.lat, arg.lon)
            atl == InAtlanticRidge(arg.lat, arg.lon)
        IN  /\ res[1] \in ZoneLabels
            /\ (res[1] = "pacific_ring_zone") = pac
            /\ (res[1] = "mediterranean_himalayan_zone") = (med /\ ~pac)
            /\ (res[1] = "atlantic_ridge_zone") = (atl /\ ~med /\ ~pac)
            /\ (res[1] = "global_zone") = (~pac /\ ~med /\ ~atl)
            /\ ~(pac /\ atl)

\* a coordinate inside both the pacific ring and the mediterranean-himalayan
\* belt (Japan) was classified, as pacific ring
C22_Witness ==
    /\ ZoneCall
    /\ InPacificRing(arg.lat, arg.lon)
    /\ InMediterraneanHimalayan(arg.lat, arg.lon)
    /\ res[1] = "pacific_ring_zone"

\* the call's first estimate is not after now, so the correction applies
Overdue == res # <<>> /\ FirstEstimate(arg.outcome.a) <= arg.clk.t491

\* where the first estimate lands once advanced by the whole cycles
Landed ==
    FirstEstimate(arg.outcome.a) + AdvancedCycles * WeightedInterval(arg.outcome.a)

LandedClose == DaysOf(Landed - arg.clk.t491) < 30

\* the returned point estimate when the corrected estimate is x: x snapped to
\* the peak month and moved with its window
PredictedDateFrom(x) ==
    LET a == arg.outcome.a
        w == WeightedInterval(a)
        snapped == SeasonalSnap(x, a.peak_months, w, arg.clk.t509)
        shift == Days(ShiftDays(snapped - UncertaintyTicks(a, w), arg.clk.t531))
    IN  snapped + shift

\* C23: an advanced estimate that lands less than 30 days after
\* now is pushed forward by a further 30 days plus the weighted interval from
\* where it landed; one that lands 30 days or more after now is left as it is.
C23_PushedFromLanded ==
    Overdue =>
        res[1].f.predicted_date =
            PredictedDateFrom(IF LandedClose
                              THEN Landed + Days(30) + WeightedInterval(arg.outcome.a)
                              ELSE Landed)

\* the estimate the snapping starts from, the two candidates it weighs and the
\* estimate it ends with (the returned one less the shift of the window)
Unsnapped ==
    FutureProject(FirstEstimate(arg.outcome.a), WeightedInterval(arg.outcome.a),
                  arg.clk.t491)

PeakCandidates ==
    {ReplaceYearMonthDay15(arg.clk.t509, YearOf(arg.clk.t509) + k,
                           arg.outcome.a.peak_months[1]) : k \in {0, 1}}

SnappedTo ==
    res[1].f.predicted_date
        - Days(ShiftDays(WindowStart(arg.outcome.a, arg.clk), arg.clk.t531))

InPeakMonth ==
    \E i \in 1..Len(arg.outcome.a.peak_months) :
        arg.outcome.a.peak_months[i] = MonthOf(Unsnapped)

\* C24: the snapping changes the estimate only when its month is not a peak
\* month, and then only to the 15th of the first peak month of the current or
\* the next year, a date strictly after now and less than half the weighted
\* interval away from the unsnapped estimate.
C24_SnapWithinHalfInterval ==
    (res # <<>> /\ SnappedTo # Unsnapped) =>
        /\ ~InPeakMonth
        /\ SnappedTo \in PeakCandidates
        /\ SnappedTo > arg.clk.t509
        /\ 2 * Abs(SnappedTo - Unsnapped) < WeightedInterval(arg.outcome.a)

\* the window of the call had to be moved: its lower bound was not after now
WindowMoved ==
    /\ res # <<>> /\ res[1].kind = "forecast"
    /\ WindowStart(arg.outcome.a, arg.clk) <= arg.clk.t531

\* the whole days the returned lower bound lies after the unshifted one
MovedDays == DaysOf(res[1].f.date_range[1] - WindowStart(arg.outcome.a, arg.clk))

\* C25: in every returned forecast the lower bound <= predicted_date <= the
\* upper bound, with predicted_date the midpoint; when the unshifted lower
\* bound is not strictly after now, the two bounds and the point estimate are
\* moved forward by the same whole number of days, so the width of the window
\* (twice the uncertainty) is unchanged.
C25_WindowShiftedWhole ==
    (res # <<>> /\ res[1].kind = "forecast") =>
        LET f == res[1].f
            a == arg.outcome.a
            uncertainty == UncertaintyTicks(a, WeightedInterval(a))
        IN  /\ f.date_range[1] <= f.predicted_date
            /\ f.predicted_date <= f.date_range[2]
            /\ f.predicted_date - f.date_range[1] = f.date_range[2] - f.predicted_date
            /\ f.date_range[2] - f.date_range[1] = 2 * uncertainty
            /\ WindowMoved =>
                   /\ MovedDays >= 1
                   /\ f.date_range[1] = WindowStart(a, arg.clk) + Days(MovedDays)
                   /\ f.predicted_date = SnappedDate(a, arg.clk) + Days(MovedDays)
                   /\ f.date_range[2] =
                          SnappedDate(a, arg.clk) + uncertainty + Days(MovedDays)
            /\ ~WindowMoved =>
                   /\ f.date_range[1] = WindowStart(a, arg.clk)
                   /\ f.predicted_date = SnappedDate(a, arg.clk)

\* a window of positive width was moved by more than one day
C25_Witness ==
    /\ WindowMoved
    /\ MovedDays > 1
    /\ res[1].f.date_range[2] > res[1].f.date_range[1]

AnalysisMethods ==
    {"filter_country_data", "get_recent_earthquake_summary",
     "analyze_earthquake_patterns", "predict_next_earthquake"}

\* the step is a call of one of the four analysis methods
AnalysisMethodCalled ==
    /\ Len(calls') = Len(calls) + 1
    /\ calls'[Len(calls')] \in AnalysisMethods

\* C26: a call of filter_country_data, get_recent_earthquake_summary,
\* analyze_earthquake_patterns or predict_next_earthquake leaves the
\* predictor's catalog exactly as it was before the call (the region registry
\* is a constant of the model: no statement of the program assigns to it).
C26_CatalogReadOnly == [][AnalysisMethodCalled => data' = data]_vars

\* a run called all four methods, the filter kept only part of the catalog
\* and a forecast was made
C26_Witness ==
    /\ pc = "end"
    /\ prediction # <<>> /\ prediction[1].kind = "forecast"
    /\ \A m \in AnalysisMethods : Called(m)
    /\ Len(country_data[1]) < Len(data.rows)

\* ages of the last significant event, in days, on and around every threshold
\* of the recency factor and of the outdated-data penalty
AgeGrid == {0, 364, 365, 1824, 1825, 3649, 3650, 3651, 7300, 7301, 10000}

\* C27: with the analysis held fixed, the confidence does not rise with the
\* number of days since the last significant event: every older age gives a
\* confidence no higher than the returned one and every younger age one no
\* lower; the outdated-data penalty is non-zero only when the recency factor
\* is at its minimum of 5 points.
C27_ConfidenceFallsWithAge ==
    (res # <<>> /\ res[1].kind = "forecast") =>
        LET f == res[1].f
            a == arg.outcome.a
        IN  /\ \A d \in AgeGrid :
                   /\ d >= f.days_since_last =>
                          ConfidencePercentage(a, d) <= f.confidence_percentage
                   /\ d <= f.days_since_last =>
                          ConfidencePercentage(a, d) >= f.confidence_percentage
            /\ \A d \in AgeGrid \cup {f.days_since_last} :
                   OutdatedDataPenalty(d) # 0 => DataRecencyScore(d) = 2 * 5

\* a forecast made more than 10 years after the last significant event whose
\* confidence is above the floor of 35, below that of a one-year-old event and
\* above that of a 20-year-old one
C27_Witness ==
    /\ res # <<>> /\ res[1].kind = "forecast"
    /\ res[1].f.days_since_last > 3650
    /\ res[1].f.days_since_last <= 7300
    /\ res[1].f.confidence_percentage > 35
    /\ ConfidencePercentage(arg.outcome.a, 364) > res[1].f.confidence_percentage
    /\ ConfidencePercentage(arg.outcome.a, 7301) < res[1].f.confidence_percentage

\* clock readings on and around the first estimate advanced by k weighted
\* intervals, at which a forecast from the analysis a could be asked for
ProjectionNows(a) ==
    {FirstEstimate(a) + k * WeightedInterval(a) + e :
        k \in 0..3, e \in (0 - 2)..(TicksPerDay + 1)}

\* C28: for every PatternAnalysis the analyzer returns, the median interval is
\* at least 30 days and the weighted interval of the forecast is strictly
\* positive, and whenever the first estimate is not after now the
\* future-projection correction yields, in its one step, an estimate strictly
\* after now.
C28_WeightedIntervalPositive ==
    \A out \in {res.first, res.second} :
        (out # <<>> /\ out[1].kind = "analysis") =>
            LET a == out[1].a
            IN  /\ a.median_interval_days >= 2 * 30
                /\ WeightedInterval(a) > 0
                /\ \A t \in ProjectionNows(a) \cup {arg.nowA, arg.nowB} :
                       FirstEstimate(a) <= t =>
                           FutureProject(FirstEstimate(a), WeightedInterval(a), t) > t

\* an analysis whose median interval is exactly 30 days was returned at a time
\* when its first estimate already lay in the past
C28_Witness ==
    /\ res.first # <<>> /\ res.first[1].kind = "analysis"
    /\ res.first[1].a.median_interval_days = 2 * 30
    /\ FirstEstimate(res.first[1].a) <= arg.nowA

====
